---- MODULE Spec2Model ----
(***************************************************************************)
(* Streamlink: the Twitch connector (src/cogs/utils/twitch.py) and the     *)
(* dispatch loops and supervisor of src/streamlink.py.                     *)
(*                                                                         *)
(* Every asyncio task is a program counter; one action is the code a task  *)
(* runs between two awaits (asyncio is cooperative: nothing else runs in   *)
(* between).  Socket reads, REST calls and the settings file are the       *)
(* environment: their results are chosen with \E.                          *)
(***************************************************************************)
EXTENDS Integers, Sequences, FiniteSets, TLC

\* ------------------------------------------------------------------ bounds
\* recv() calls made by the IRC receive loop (handshake and steady state)
MaxIrcReads == 2
\* recv() calls made by the pub/sub receive loop
MaxPsReads == 3
\* cancellations delivered to main()
MaxCancels == 2
\* PING frames sent by the heartbeat loop
MaxHeartbeats == 2

\* ------------------------------------------------------- program constants
ChannelId == "chan"
ChannelName == "name"
AccessToken == "tok"

NoneV == "None"

\* settings.toml, 'TTS Blacklist'
TTSBlacklist == {"bob"}

VARIABLES
    \* ---- TwitchConnector (src/cogs/utils/twitch.py:321-337)
    socket,             \* pub/sub socket: "none" | "open" | "closed"
    chat_socket,        \* chat socket:    "none" | "open" | "lost" | "closed"
    heartbeat_task,     \* send_ping task
    message_task,       \* handle_message_receive task
    irc_message_task,   \* handle_irc_message_receive task
    message_queue,      \* redemption events, FIFO
    chat_queue,         \* (chatter, text) pairs, FIFO
    \* ---- position inside handle_irc_message_receive
    irc_buf,            \* segments of the current read not yet processed
    irc_reads,          \* recv() calls made on the chat socket
    \* ---- the wire, as the peer sees it
    ps_sent,            \* frames written to the pub/sub socket, in order
    ps_reads,           \* recv() calls made on the pub/sub socket
    ps_errors,          \* read errors logged by the pub/sub receive loop
    irc_log,            \* chat socket: frames written, lines handled, closes
    \* ---- main() (src/streamlink.py:508-588)
    main_pc,
    message_loop_task,  \* twitch_message_loop task
    points_loop_task,   \* twitch_points_loop task
    TTS_PROCESS_QUEUE,  \* list of TTS tasks
    cancels,            \* cancellations delivered to main()
    \* ---- TwitchConnector.cleanup() (src/cogs/utils/twitch.py:407-418)
    cleanup_pc,         \* the await a running cleanup() is at, or "none"
    cleanup_log,        \* how each cleanup() call ended: "ok" | "raised"
    \* ---- history of the points loop
    points_cur,         \* the event whose status update is in flight
    handled,            \* (event, outcome) in the order resolved
    calls,              \* update_redemption_status calls, in the order issued
    points_exc,         \* why the points task ended
    \* ---- what a peer or a client of the connector can observe
    chat_got,           \* events taken by twitch_message_loop, and what it did
    ps_in,              \* frames delivered by recv() on the pub/sub socket
    send_tasks,         \* send_message() calls waiting in chat_socket.send
    orphaned,           \* open sockets and live tasks no attribute refers to
    \* ---- the cogs
    cog_points,         \* the points loop over the reward handlers of the cogs
    reward_log,         \* what each reward handler returned, in order
    tts_inv,            \* the invocations of handle_twitch_tts, in call order
    tts_lock,           \* invocations holding or awaiting a lock, as they came
    tts_started         \* invocations whose playback started, in that order

connVars == <<socket, chat_socket, heartbeat_task, message_task,
              irc_message_task>>
queueVars == <<message_queue, chat_queue>>
ircVars == <<irc_buf, irc_reads, irc_log>>
psVars == <<ps_sent, ps_reads, ps_errors>>
cleanupVars == <<cleanup_pc, cleanup_log>>
mainVars == <<main_pc, message_loop_task, points_loop_task,
              TTS_PROCESS_QUEUE, cancels>>
pointsHist == <<points_cur, handled, calls, points_exc>>
cogVars == <<cog_points, reward_log, tts_inv, tts_lock, tts_started>>
obsVars == <<chat_got, ps_in, send_tasks, orphaned, cogVars>>

vars == <<socket, chat_socket, heartbeat_task, message_task, irc_message_task,
          message_queue, chat_queue, irc_buf, irc_reads, ps_sent, ps_reads,
          irc_log, main_pc, message_loop_task, points_loop_task,
          TTS_PROCESS_QUEUE, cancels, points_cur, handled, calls, points_exc,
          ps_errors, cleanup_pc, cleanup_log, chat_got, ps_in, send_tasks,
          orphaned, cog_points, reward_log, tts_inv, tts_lock, tts_started>>

\* ------------------------------------------------------------ task states
\* A task is done() once it returned, raised or was cancelled.
TaskDone(t) == t \in {"returned", "failed", "cancelled"}

TaskLive(t) == t # "none" /\ ~TaskDone(t)

\* Task.cancel(): a live task gets CancelledError at its await; a finished
\* task is left as it is.
CancelTaskIgnored(t) == t

CancelTask(t) == IF TaskLive(t) THEN "cancelled" ELSE t

\* except Exception as e: log.error(...); continue -- where a receive loop is
\* after a recv() that raised: at the recv() of the same while loop
AfterReadErrorEnds(t) == "failed"

AfterReadError(t) == t

\* TwitchConnector.__init__ and the module globals of streamlink.py
Init ==
    /\ socket = "none"
    /\ chat_socket = "none"
    /\ heartbeat_task = "none"
    /\ message_task = "none"
    /\ irc_message_task = "none"
    /\ message_queue = <<>>
    /\ chat_queue = <<>>
    /\ irc_buf = <<>>
    /\ irc_reads = 0
    /\ ps_sent = <<>>
    /\ ps_reads = 0
    /\ irc_log = <<>>
    /\ main_pc = "connect"
    /\ message_loop_task = "none"
    /\ points_loop_task = "none"
    /\ TTS_PROCESS_QUEUE = <<>>
    /\ cancels = 0
    /\ points_cur = 0
    /\ handled = <<>>
    /\ calls = <<>>
    /\ points_exc = NoneV
    /\ ps_errors = 0
    /\ cleanup_pc = "none"
    /\ cleanup_log = <<>>
    /\ chat_got = <<>>
    /\ ps_in = <<>>
    /\ send_tasks = 0
    /\ orphaned = [sockets |-> 0, tasks |-> 0]
    /\ cog_points = [pc |-> "get",
                     red |-> [id |-> 0, title |-> NoneV, user |-> NoneV,
                              user_input |-> NoneV]]
    /\ reward_log = <<>>
    /\ tts_inv = <<>>
    /\ tts_lock = <<>>
    /\ tts_started = <<>>


\* ------------------------------------------------------------ wire frames
\* An entry of irc_log: a non-empty segment delivered by the peer (IN), a
\* frame written to the chat socket (PASS, NICK, JOIN, CAP, PONG), a line that
\* the receive loop got to (HS while it waits for the welcome, RECV
\* afterwards), a put on the chat queue (ENQ), a read error logged (ERR), an
\* exception that ended the receive task (RAISE) or a close() of the chat
\* socket (CLOSE).  `line` is the number of the line the entry belongs to
\* (0: none); `by` is who made it: the peer, run(), the receive loop (irc) or
\* cleanup().
LogEntry(op, arg, line, by) == [op |-> op, arg |-> arg, line |-> line, by |-> by]

\* A LISTEN payload without the auth_token of the connector
ListenFrameAnonymous == [type |-> "LISTEN",
                         topic |-> <<"channel-points-channel-v1", ChannelId>>,
                         auth_token |-> NoneV]

ListenFrame == [type |-> "LISTEN",
                topic |-> <<"channel-points-channel-v1", ChannelId>>,
                auth_token |-> AccessToken]

PingFrame == [type |-> "PING", topic |-> <<>>, auth_token |-> NoneV]

\* ------------------------------------------------------- TwitchConnector.run
\* An assignment to an attribute of the connector drops the reference to the
\* socket or task the attribute held: nothing closes or cancels it.
Dropped(o, sockets, tasks) ==
    [sockets |-> o.sockets + Cardinality({i \in 1..Len(sockets) : sockets[i] = "open"}),
     tasks |-> o.tasks + Cardinality({i \in 1..Len(tasks) : TaskLive(tasks[i])})]

\* websockets.connect() twice, then the heartbeat task is created; on the
\* first call no task exists before that, so nothing runs in between.
RunConnect ==
    /\ main_pc = "connect"
    /\ socket' = "open"
    /\ chat_socket' = "open"
    /\ heartbeat_task' = "send"
    /\ orphaned' = Dropped(orphaned, <<socket, chat_socket>>, <<heartbeat_task>>)
    /\ main_pc' = "listen"
    /\ UNCHANGED <<cogVars, chat_got, ps_in, send_tasks, cleanupVars, message_task, irc_message_task, queueVars, ircVars, psVars,
                   message_loop_task, points_loop_task, TTS_PROCESS_QUEUE,
                   cancels, pointsHist>>

\* await self.send_channel_listen(); the pub/sub receive task is created
RunListen ==
    /\ main_pc = "listen"
    /\ ps_sent' = Append(ps_sent, ListenFrame)
    /\ message_task' = "recv"
    /\ orphaned' = Dropped(orphaned, <<>>, <<message_task>>)
    /\ main_pc' = "pass"
    /\ UNCHANGED <<cogVars, chat_got, ps_in, send_tasks, cleanupVars, socket, chat_socket, heartbeat_task, irc_message_task,
                   queueVars, ircVars, ps_reads, ps_errors, message_loop_task,
                   points_loop_task, TTS_PROCESS_QUEUE, cancels, pointsHist>>

\* await self.chat_socket.send(f"PASS oauth:{self.access_token}")
RunPass ==
    /\ main_pc = "pass"
    /\ irc_log' = Append(irc_log, LogEntry("PASS", AccessToken, 0, "run"))
    /\ main_pc' = "nick"
    /\ UNCHANGED <<obsVars, cleanupVars, connVars, queueVars, irc_buf, irc_reads, psVars,
                   message_loop_task, points_loop_task, TTS_PROCESS_QUEUE,
                   cancels, pointsHist>>

\* await self.chat_socket.send(f"NICK {self.channel_name}"); the IRC receive
\* task is created and run() returns
RunNick ==
    /\ main_pc = "nick"
    /\ irc_log' = Append(irc_log, LogEntry("NICK", ChannelName, 0, "run"))
    /\ irc_message_task' = "await_ok"
    /\ orphaned' = Dropped(orphaned, <<>>, <<irc_message_task>>)
    /\ main_pc' = "started"
    /\ UNCHANGED <<cogVars, chat_got, ps_in, send_tasks, cleanupVars, socket, chat_socket, heartbeat_task, message_task,
                   queueVars, irc_buf, irc_reads, psVars, message_loop_task,
                   points_loop_task, TTS_PROCESS_QUEUE, cancels, pointsHist>>

\* --------------------------------------------------- TwitchConnector.send_ping
\* One turn of the heartbeat loop: send {"type": "PING"}, then sleep 60 s.
\* socket.send is not guarded: a failed send ends the task.
SendPing ==
    /\ heartbeat_task = "send"
    /\ Len(ps_sent) <= MaxHeartbeats
    /\ \E ok \in BOOLEAN :
          IF ok
          THEN /\ ps_sent' = Append(ps_sent, PingFrame)
               /\ UNCHANGED heartbeat_task
          ELSE /\ heartbeat_task' = "failed"
               /\ UNCHANGED ps_sent
    /\ UNCHANGED <<obsVars, cleanupVars, socket, chat_socket, message_task, irc_message_task,
                   queueVars, ircVars, ps_reads, ps_errors, mainVars, pointsHist>>


\* ------------------------------------------------- pub/sub frames received
\* The rewards of the channel: a reward has an id and a title.
Rewards == {[id |-> "w1", title |-> "Play sound: jab"],
            [id |-> "w2", title |-> "Highlight my message"]}

RedemptionIds == {"r1", "r2"}

NoReward == [id |-> NoneV, title |-> NoneV]

\* What json.loads(data['data']['message']) can give: a redemption, a JSON
\* object of another shape (no data.redemption.reward.title), or null.
Messages ==
    [kind : {"redeem"}, id : RedemptionIds, reward : Rewards]
      \cup {[kind |-> "malformed", id |-> NoneV, reward |-> NoReward],
            [kind |-> "null", id |-> NoneV, reward |-> NoReward]}

NoMessage == [kind |-> "none", id |-> NoneV, reward |-> NoReward]

\* A frame read from the pub/sub socket.  "BAD" is a frame json.loads rejects
\* or that lacks 'type' / 'data' / 'topic' / 'message'.
PsFrames ==
    [type : {"MESSAGE"}, topic : {"channel-points-channel-v1"}, message : Messages]
      \cup {[type |-> "PONG", topic |-> NoneV, message |-> NoMessage],
            [type |-> "MESSAGE", topic |-> "other-topic", message |-> NoMessage],
            [type |-> "RESPONSE", topic |-> NoneV, message |-> NoMessage],
            [type |-> "BAD", topic |-> NoneV, message |-> NoMessage]}

\* str.startswith("channel-points-channel-v1") on the topics of the model
IsPointsTopicAny(topic) == TRUE

IsPointsTopic(topic) == topic = "channel-points-channel-v1"

\* The event put on message_queue: the decoded message, tagged with the
\* number of the read that delivered it (the identity of the event).
QueuedEvent(m, n) == [seq |-> n, kind |-> m.kind, id |-> m.id, reward |-> m.reward]

\* History: read n delivered `data`; `redeem` tells whether it is a MESSAGE
\* frame on the channel points topic, `message` is what its nested message
\* decodes to.
Delivered(data, n) ==
    [seq |-> n,
     redeem |-> data.type = "MESSAGE" /\ data.topic = "channel-points-channel-v1",
     message |-> data.message]

\* ------------------------------------ TwitchConnector.handle_message_receive
\* One turn of the loop: a failed recv() is logged and retried; the frame is
\* decoded outside the try, so a frame that cannot be decoded ends the task.
HandleMessageReceive ==
    /\ message_task = "recv"
    /\ ps_reads < MaxPsReads
    /\ ps_reads' = ps_reads + 1
    /\ \/ \* recv() raised: log.error(...) and continue
          /\ ps_errors' = ps_errors + 1
          /\ message_task' = AfterReadError(message_task)
          /\ UNCHANGED <<message_queue, ps_in>>
       \/ \E data \in PsFrames :
            /\ UNCHANGED ps_errors
            /\ ps_in' = Append(ps_in, Delivered(data, ps_reads + 1))
            /\ IF data.type = "BAD"
               THEN /\ message_task' = "failed"
                    /\ UNCHANGED message_queue
               ELSE IF data.type = "PONG"
               THEN UNCHANGED <<message_task, message_queue>>
               ELSE IF data.type = "MESSAGE" /\ IsPointsTopic(data.topic)
               THEN /\ message_queue' =
                         Append(message_queue, QueuedEvent(data.message, ps_reads + 1))
                    /\ UNCHANGED message_task
               ELSE UNCHANGED <<message_task, message_queue>>
    /\ UNCHANGED <<cogVars, chat_got, send_tasks, orphaned, cleanupVars, socket, chat_socket, heartbeat_task, irc_message_task,
                   chat_queue, ircVars, ps_sent, mainVars, pointsHist>>

\* --------------------------------------------------------- twitch_points_loop
\* reward_title.startswith("Play sound: ")
IsPlaySound(title) == title = "Play sound: jab"

\* The try/except around the VLC calls: status is True when the sound plays,
\* False when anything in the try block raises.
PlaySoundBroken(vlc_ok) == IF vlc_ok THEN "True" ELSE "Raise"

PlaySoundNoOpinion(vlc_ok) == IF vlc_ok THEN "True" ELSE NoneV

PlaySound(vlc_ok) == IF vlc_ok THEN "True" ELSE "False"

\* "FULFILLED" if status else "CANCELED"
StatusName(status) == IF status = "True" THEN "FULFILLED" ELSE "CANCELED"

\* The arguments of oauth.update_redemption_status(...)
UpdateCallSwapped(m, status) ==
    [seq |-> m.seq,
     token |-> AccessToken,
     redemption_id |-> m.reward.id,
     channel_id |-> ChannelId,
     reward_id |-> m.id,
     status |-> StatusName(status)]

UpdateCall(m, status) ==
    [seq |-> m.seq,
     token |-> AccessToken,
     redemption_id |-> m.id,
     channel_id |-> ChannelId,
     reward_id |-> m.reward.id,
     status |-> StatusName(status)]

\* What `await twitch.message_queue.get()` leaves on the queue
AfterGetPeek(q) == q

AfterGet(q) == Tail(q)

\* await oauth.update_redemption_status(...): the loop waits for the call to
\* end before it goes round to message_queue.get()
AfterUpdateCallDetached == "get"

AfterUpdateCall == "updating"

\* From the return of message_queue.get() to the next await: the event is
\* taken, the reward is handled and, when status is not None, the status
\* update is started.  No await lies between the handling and the call.
PointsGet ==
    /\ points_loop_task = "get"
    /\ message_queue # <<>>
    /\ LET message == Head(message_queue) IN
       /\ message_queue' = AfterGet(message_queue)
       /\ IF message.kind = "null"
          THEN \* if message is None: return
               /\ points_loop_task' = "returned"
               /\ UNCHANGED pointsHist
          ELSE IF message.kind = "malformed"
          THEN \* message['data']['redemption']['reward']['title'] raises
               /\ points_loop_task' = "failed"
               /\ points_exc' = "body"
               /\ UNCHANGED <<points_cur, handled, calls>>
          ELSE \E vlc_ok \in BOOLEAN :
                 LET status == IF IsPlaySound(message.reward.title)
                               THEN PlaySound(vlc_ok)
                               ELSE NoneV
                 IN
                 \* a reward that is not a sound does not reach the VLC calls
                 /\ (~IsPlaySound(message.reward.title) => vlc_ok)
                 /\ IF status = "Raise"
                    THEN /\ points_loop_task' = "failed"
                         /\ points_exc' = "handler"
                         /\ UNCHANGED <<points_cur, handled, calls>>
                    ELSE /\ handled' = Append(handled,
                                [seq |-> message.seq, id |-> message.id,
                                 reward_id |-> message.reward.id,
                                 status |-> status, fault |-> ~vlc_ok])
                         /\ IF status # NoneV
                            THEN /\ calls' = Append(calls, UpdateCall(message, status))
                                 /\ points_cur' = message.seq
                                 /\ points_loop_task' = AfterUpdateCall
                            ELSE UNCHANGED <<calls, points_cur, points_loop_task>>
                         /\ UNCHANGED points_exc
    /\ UNCHANGED <<obsVars, cleanupVars, connVars, chat_queue, ircVars, psVars, main_pc,
                   message_loop_task, TTS_PROCESS_QUEUE, cancels>>

\* session.patch(...) completes: back to message_queue.get()
PointsUpdateReturns ==
    /\ points_loop_task = "updating"
    /\ points_loop_task' = "get"
    /\ points_cur' = 0
    /\ UNCHANGED <<obsVars, cleanupVars, connVars, queueVars, ircVars, psVars, main_pc,
                   message_loop_task, TTS_PROCESS_QUEUE, cancels,
                   handled, calls, points_exc>>

\* session.patch(...) raises: nothing in the loop catches it
PointsUpdateRaises ==
    /\ points_loop_task = "updating"
    /\ points_loop_task' = "failed"
    /\ points_exc' = "update"
    /\ points_cur' = 0
    /\ UNCHANGED <<obsVars, cleanupVars, connVars, queueVars, ircVars, psVars, main_pc,
                   message_loop_task, TTS_PROCESS_QUEUE, cancels,
                   handled, calls>>


\* -------------------------------------------------------- twitch_message_loop
\* str.startswith("!") / str.startswith("http") on the texts of the model
IsCommand(chat) == chat = "!so"

IsLink(chat) == chat = "http://x"

\* get_settings() at the top of twitch_message_loop: the settings file is read
\* before the loop is entered ("If we're gonna error anywhere, it should be
\* here").
MessageLoopStart ==
    /\ message_loop_task = "start"
    /\ \E settings_ok \in BOOLEAN :
          message_loop_task' = IF settings_ok THEN "get" ELSE "failed"
    /\ UNCHANGED <<obsVars, cleanupVars, connVars, queueVars, ircVars, psVars, main_pc,
                   points_loop_task, TTS_PROCESS_QUEUE, cancels, pointsHist>>

\* History: the event the loop took from the chat queue and what became of
\* it: "raised" (the loop body raised), "skipped" (a filter said continue) or
\* "tts" (a TTS task was created for it).
Got(event, outcome) == [event |-> event, outcome |-> outcome]

\* TTS_PROCESS_QUEUE.append(asyncio.Task(coro)): the task is created and not
\* awaited, the loop is back at chat_queue.get()
AfterTtsTaskAwaited == "tts_wait"

AfterTtsTask == "get"

\* From the return of chat_queue.get() to the next get(): the filters, then a
\* TTS task is created and appended to TTS_PROCESS_QUEUE.  get_settings() and
\* the text replacement can raise, which ends the task.
MessageLoopGet ==
    /\ message_loop_task = "get"
    /\ chat_queue # <<>>
    /\ LET user_info == Head(chat_queue).chatter
           chat == Head(chat_queue).text
       IN
       /\ chat_queue' = Tail(chat_queue)
       /\ \E ok \in BOOLEAN :
            IF ~ok
            THEN /\ message_loop_task' = "failed"
                 /\ chat_got' = Append(chat_got, Got(Head(chat_queue), "raised"))
                 /\ UNCHANGED TTS_PROCESS_QUEUE
            ELSE IF user_info.username \in TTSBlacklist
                    \/ IsCommand(chat) \/ IsLink(chat)
            THEN /\ chat_got' = Append(chat_got, Got(Head(chat_queue), "skipped"))
                 /\ UNCHANGED <<message_loop_task, TTS_PROCESS_QUEUE>>
            ELSE /\ TTS_PROCESS_QUEUE' = Append(TTS_PROCESS_QUEUE, "run")
                 /\ chat_got' = Append(chat_got, Got(Head(chat_queue), "tts"))
                 /\ message_loop_task' = AfterTtsTask
    /\ UNCHANGED <<cogVars, ps_in, send_tasks, orphaned, cleanupVars, connVars, message_queue, ircVars, psVars, main_pc,
                   points_loop_task, cancels, pointsHist>>

\* A TTS task (handle_run_tts) runs to its end.
TtsDone ==
    /\ main_pc \notin {"done", "failed"}
    /\ \E i \in 1..Len(TTS_PROCESS_QUEUE) :
          /\ TTS_PROCESS_QUEUE[i] = "run"
          /\ TTS_PROCESS_QUEUE' = [TTS_PROCESS_QUEUE EXCEPT ![i] = "done"]
    /\ UNCHANGED <<obsVars, cleanupVars, connVars, queueVars, ircVars, psVars, main_pc,
                   message_loop_task, points_loop_task, cancels, pointsHist>>

\* ------------------------------------------------------------------- main()
RemoveAt(L, i) == [k \in 1..(Len(L) - 1) |-> IF k < i THEN L[k] ELSE L[k + 1]]

\* for t in TTS_PROCESS_QUEUE: if t.done(): TTS_PROCESS_QUEUE.remove(t)
\* The list is changed while it is iterated: after a removal at index i the
\* iterator moves on to index i + 1 of the shortened list.
RECURSIVE RemoveDoneFrom(_, _)
RemoveDoneFrom(L, i) ==
    IF i > Len(L) THEN L
    ELSE IF L[i] = "done" THEN RemoveDoneFrom(RemoveAt(L, i), i + 1)
    ELSE RemoveDoneFrom(L, i + 1)

\* A supervisor that restarts the message loop on every pass
TopOfLoopRestarts(task) == "backoff"

\* The test at the top of the while loop, and where main() awaits next:
\* message_loop_task.done() and message_loop_task.exception()
TopOfLoop(task) == IF task = "failed" THEN "backoff" ELSE "sleep"

\* The two dispatch loops are created after run() returned, and main() enters
\* its loop.
MainCreateTasks ==
    /\ main_pc = "started"
    /\ message_loop_task' = "start"
    /\ points_loop_task' = "get"
    /\ main_pc' = "sleep"
    /\ UNCHANGED <<obsVars, cleanupVars, connVars, queueVars, ircVars, psVars, TTS_PROCESS_QUEUE,
                   cancels, pointsHist>>

\* await asyncio.sleep(0.1) returns: finished TTS tasks are removed, and the
\* message loop task is tested again.
MainTick ==
    /\ main_pc = "sleep"
    /\ message_loop_task # "cancelled"
    /\ TTS_PROCESS_QUEUE' = RemoveDoneFrom(TTS_PROCESS_QUEUE, 1)
    /\ main_pc' = TopOfLoop(message_loop_task)
    /\ UNCHANGED <<obsVars, cleanupVars, connVars, queueVars, ircVars, psVars, message_loop_task,
                   points_loop_task, cancels, pointsHist>>

\* await asyncio.sleep(10) returns: a fresh message loop task is created.
MainRestart ==
    /\ main_pc = "backoff"
    /\ message_loop_task' = "start"
    /\ main_pc' = "grace"
    /\ UNCHANGED <<obsVars, cleanupVars, connVars, queueVars, ircVars, psVars, points_loop_task,
                   TTS_PROCESS_QUEUE, cancels, pointsHist>>

\* if message_loop_task.done(): pass / else: break -- a replacement that is
\* done already sends main() round the inner loop (10 s, restart), a live one
\* leaves it for the sleep of the outer loop
GraceCheckSkipped(task) == "sleep"

GraceCheck(task) == IF TaskDone(task) THEN "backoff" ELSE "sleep"

\* await asyncio.sleep(0.1) after the restart returns: a task that is done
\* already is restarted again, a live one ends the recovery.
MainGrace ==
    /\ main_pc = "grace"
    /\ main_pc' = GraceCheck(message_loop_task)
    /\ UNCHANGED <<obsVars, cleanupVars, connVars, queueVars, ircVars, psVars, message_loop_task,
                   points_loop_task, TTS_PROCESS_QUEUE, cancels, pointsHist>>

\* ---------------------------------------------------- TwitchConnector.cleanup
\* cleanup() calls made by a client of the connector (not by main())
MaxCleanups == 2

CloseFrame == [type |-> "CLOSE", topic |-> <<>>, auth_token |-> NoneV]

CleanupLog(log) == Append(log, LogEntry("CLOSE", NoneV, 0, "cleanup"))

\* self.heartbeat_task.cancel(), self.message_task.cancel(),
\* self.irc_message_task.cancel(): a task that is still None has no cancel(),
\* the call raises AttributeError and the statements after it are not run.
CleanupRaises ==
    heartbeat_task = "none" \/ message_task = "none" \/ irc_message_task = "none"

\* cleanup() up to its first await: the three cancel() calls, in order.
CleanupCancel ==
    /\ heartbeat_task' = CancelTask(heartbeat_task)
    /\ message_task' = IF heartbeat_task = "none" THEN message_task
                       ELSE CancelTask(message_task)
    /\ irc_message_task' = IF heartbeat_task = "none" \/ message_task = "none"
                           THEN irc_message_task
                           ELSE CancelTask(irc_message_task)
    /\ IF CleanupRaises
       THEN /\ cleanup_log' = Append(cleanup_log, "raised")
            /\ cleanup_pc' = "none"
       ELSE /\ cleanup_pc' = "close_socket"
            /\ UNCHANGED cleanup_log

\* A client of the connector other than main() calls cleanup(): before
\* run() or after run() has returned, also a second time.  (main() makes its
\* one call in MainCancelled.)
Cleanup ==
    /\ main_pc \in {"connect", "started"}
    /\ cleanup_pc = "none"
    /\ Len(cleanup_log) < MaxCleanups
    /\ CleanupCancel
    /\ UNCHANGED <<obsVars, socket, chat_socket, queueVars, ircVars, psVars,
                   mainVars, pointsHist>>

\* await self.socket.close() returns
CleanupCloseSocket ==
    /\ cleanup_pc = "close_socket"
    /\ socket' = "closed"
    /\ ps_sent' = Append(ps_sent, CloseFrame)
    /\ cleanup_pc' = "close_chat"
    /\ UNCHANGED <<obsVars, chat_socket, heartbeat_task, message_task,
                   irc_message_task, queueVars, ircVars, ps_reads, ps_errors,
                   mainVars, pointsHist, cleanup_log>>

\* await self.chat_socket.close() returns, and cleanup() with it; when main()
\* made the call it leaves its loop (break) and ends.
CleanupCloseChat ==
    /\ cleanup_pc = "close_chat"
    /\ chat_socket' = "closed"
    /\ irc_log' = CleanupLog(irc_log)
    /\ cleanup_pc' = "none"
    /\ cleanup_log' = Append(cleanup_log, "ok")
    /\ main_pc' = IF main_pc = "cleanup" THEN "done" ELSE main_pc
    /\ UNCHANGED <<obsVars, socket, heartbeat_task, message_task,
                   irc_message_task, queueVars, irc_buf, irc_reads, psVars,
                   message_loop_task, points_loop_task, TTS_PROCESS_QUEUE,
                   cancels, pointsHist>>

CleanupSteps == CleanupCloseSocket \/ CleanupCloseChat

\* The handler of CancelledError in main() from the point where no TTS task
\* is left to pop: both dispatch loops are cancelled and cleanup() is awaited.
\* A message loop task that is cancelled makes every pass through the top of
\* the while loop raise again, so the handler pops the TTS tasks one after
\* the other, with no await in between, before it gets here.
MainShutdown ==
    /\ TTS_PROCESS_QUEUE' = <<>>
    /\ message_loop_task' = CancelTask(message_loop_task)
    /\ points_loop_task' = CancelTask(points_loop_task)
    /\ CleanupCancel
    /\ main_pc' = IF CleanupRaises THEN "failed" ELSE "cleanup"

\* except asyncio.CancelledError in main(): with TTS tasks pending the oldest
\* is popped and cancelled and main() goes on; with none, both dispatch loops
\* are cancelled and cleanup() is awaited.
MainCancelled ==
    /\ main_pc \in {"sleep", "backoff", "grace"}
    /\ cancels < MaxCancels
    /\ cancels' = cancels + 1
    /\ IF TTS_PROCESS_QUEUE # <<>> /\ message_loop_task # "cancelled"
       THEN /\ TTS_PROCESS_QUEUE' = Tail(TTS_PROCESS_QUEUE)
            /\ main_pc' = TopOfLoop(message_loop_task)
            /\ UNCHANGED <<connVars, message_loop_task, points_loop_task,
                           cleanupVars>>
       ELSE /\ MainShutdown
            /\ UNCHANGED <<socket, chat_socket>>
    /\ UNCHANGED <<obsVars, queueVars, ircVars, psVars, pointsHist>>

\* await asyncio.sleep(0.1) returns with the message loop task cancelled by
\* someone: message_loop_task.exception() raises CancelledError inside the
\* try, and main() handles it like a cancellation of its own.
MainTickCancelled ==
    /\ main_pc = "sleep"
    /\ message_loop_task = "cancelled"
    /\ MainShutdown
    /\ UNCHANGED <<obsVars, socket, chat_socket, queueVars, ircVars, psVars,
                   cancels, pointsHist>>

\* Something other than main() cancels one of the two dispatch loop tasks
\* (Task.cancel() on message_loop_task or points_loop_task).
CancelMessageLoop ==
    /\ main_pc \in {"sleep", "backoff", "grace"}
    /\ TaskLive(message_loop_task)
    /\ points_loop_task # "cancelled"
    /\ message_loop_task' = CancelTask(message_loop_task)
    /\ UNCHANGED <<obsVars, cleanupVars, connVars, queueVars, ircVars, psVars,
                   main_pc, points_loop_task, TTS_PROCESS_QUEUE, cancels,
                   pointsHist>>

CancelPointsLoop ==
    /\ main_pc \in {"sleep", "backoff", "grace"}
    /\ TaskLive(points_loop_task)
    /\ message_loop_task # "cancelled"
    /\ points_loop_task' = CancelTask(points_loop_task)
    /\ UNCHANGED <<obsVars, cleanupVars, connVars, queueVars, ircVars, psVars,
                   main_pc, message_loop_task, TTS_PROCESS_QUEUE, cancels,
                   pointsHist>>


\* ------------------------------------------------------- chat lines received
\* One element of the tag block of a PRIVMSG line ("@k=v;k=v "): `eq` tells
\* whether the element holds a "=".
Tag(key, eq, val) == [key |-> key, eq |-> eq, val |-> val]

\* The tag blocks of the model: a well-formed one, and one with an element
\* that has no "=".
GoodTags == <<Tag("color", TRUE, ""), Tag("mod", TRUE, "1")>>

BadTags == <<Tag("mod", TRUE, "1"), Tag("flags", FALSE, "")>>

\* A line of the chat protocol, by what the code tests on it; `tags` is the
\* "tags" group of TEXT_MESSAGE_REGEX (empty: the group did not match).
TaggedLine(tags, user, text) ==
    [kind |-> "privmsg", tok |-> NoneV, user |-> user, text |-> text, tags |-> tags]

Line(kind, tok, user, text) ==
    [kind |-> kind, tok |-> tok, user |-> user, text |-> text, tags |-> <<>>]

LoginFailLine == Line("loginfail", NoneV, NoneV, NoneV)

WelcomeLine == Line("welcome", NoneV, NoneV, NoneV)

BlankLine == Line("blank", NoneV, NoneV, NoneV)

OtherLine == Line("other", NoneV, NoneV, NoneV)

\* What follows "PING " on a PING line
PingTokens == {":tmi.twitch.tv"}

ChatInputs == {[user |-> "alice", text |-> "hi"],
               [user |-> "alice", text |-> "!so"],
               [user |-> "alice", text |-> "http://x"],
               [user |-> "bob", text |-> "hi"]}

Lines ==
    {LoginFailLine, WelcomeLine, OtherLine}
      \cup {Line("ping", t, NoneV, NoneV) : t \in PingTokens}
      \cup {Line("privmsg", NoneV, c.user, c.text) : c \in ChatInputs}
      \cup {TaggedLine(t, "alice", "hi") : t \in {GoodTags, BadTags}}

\* A raw read: one or two lines, each ended by CRLF.
RawReads == {<<l>> : l \in Lines} \cup {<<l, m>> : l \in Lines, m \in Lines}

\* data_raw.split("\r\n"): the text after the last CRLF is a segment too, so
\* a read of CRLF-terminated lines ends with an empty segment.  Segment i of
\* read n is numbered 10 * n + i.
SplitCRLF(data_raw, n) ==
    [i \in 1..(Len(data_raw) + 1) |->
        [line |-> IF i <= Len(data_raw) THEN data_raw[i] ELSE BlankLine,
         id |-> 10 * n + i]]

\* History: the non-empty segments of a read, as the peer sent them (whether
\* or not the loop gets to them); the entry of a PING line holds its token.
Received(segs) ==
    LET P == SelectSeq(segs, LAMBDA g : g.line.kind # "blank") IN
    [i \in 1..Len(P) |-> LogEntry("IN", P[i].line.tok, P[i].id, "peer")]

\* line == ":tmi.twitch.tv NOTICE * :Login unsuccessful"
IsLoginFail(l) == l.kind = "loginfail"

\* line.endswith(":Welcome, GLHF!")
IsWelcomeLoose(l) == l.kind \in {"welcome", "other"}

IsWelcome(l) == l.kind = "welcome"

\* not line.strip()
IsBlank(l) == l.kind = "blank"

\* line.startswith("PING ")
IsPing(l) == l.kind = "ping"

\* TEXT_MESSAGE_REGEX.match(line)
IsTextLoose(l) == l.kind \in {"privmsg", "other"}

IsText(l) == l.kind = "privmsg"

\* TwitchChatter(username): the defaults of the dataclass
TwitchChatter(username) ==
    [username |-> username, colour |-> NoneV, moderator |-> FALSE,
     subscriber |-> FALSE, vip |-> FALSE]

\* i.split("=")[1] for an element without "=" raises IndexError
ParseRaises(tags) == \E i \in 1..Len(tags) : ~tags[i].eq

\* keys.get(k, default): the dict comprehension keeps the last element of a key
KeysGet(tags, k, default) ==
    LET at == {i \in 1..Len(tags) : tags[i].key = k} IN
    IF at = {} THEN default
    ELSE tags[CHOOSE i \in at : \A j \in at : j <= i].val

\* TwitchChatter.parse(username, tags), for tags that do not raise
ParseTruthy(username, tags) ==
    [username |-> username,
     colour |-> IF KeysGet(tags, "color", "") = "" THEN NoneV
                ELSE KeysGet(tags, "color", ""),
     moderator |-> KeysGet(tags, "mod", "0") # "0",
     subscriber |-> KeysGet(tags, "subscriber", "0") # "0",
     vip |-> KeysGet(tags, "vip", "0") # "0"]

Parse(username, tags) ==
    [username |-> username,
     colour |-> IF KeysGet(tags, "color", "") = "" THEN NoneV
                ELSE KeysGet(tags, "color", ""),
     moderator |-> KeysGet(tags, "mod", "0") = "1",
     subscriber |-> KeysGet(tags, "subscriber", "0") = "1",
     vip |-> KeysGet(tags, "vip", "0") = "1"]

\* The pair put on the chat queue, with the number of its line
ChatEvent(l, id) ==
    [chatter |-> IF l.tags # <<>> THEN Parse(l.user, l.tags)
                 ELSE TwitchChatter(l.user),
     text |-> l.text, line |-> id]

\* History: TwitchChatter.parse was called with the tag block of line `id`
\* and returned (if match.group("tags"): ...)
ParseCall(l, id) ==
    IF l.tags = <<>> THEN <<>> ELSE <<LogEntry("PARSE", l.tags, id, "irc")>>

\* ------------------------------- TwitchConnector.handle_irc_message_receive
\* A line that the for loop of the first while loop gets to and that takes
\* neither branch: nothing is done with it.
Ignored(seg) ==
    IF IsBlank(seg.line) THEN <<>>
    ELSE <<LogEntry("HS", "ignored", seg.id, "irc")>>

\* The for loop of the first while loop: the first segment that is the
\* login-failed line or a welcome line decides (return, break); the for loop
\* does not get to the segments after it.  `seen` are the lines before it.
\* A for loop that takes the first line of a read, whatever it is, for the
\* welcome
HandshakeScanEager(segs) ==
    IF segs = <<>>
    THEN [result |-> "none", kind |-> NoneV, line |-> 0, seen |-> <<>>]
    ELSE [result |-> "welcome", kind |-> Head(segs).line.kind,
          line |-> Head(segs).id, seen |-> <<>>]

RECURSIVE HandshakeScan(_)
HandshakeScan(segs) ==
    IF segs = <<>>
    THEN [result |-> "none", kind |-> NoneV, line |-> 0, seen |-> <<>>]
    ELSE IF IsLoginFail(Head(segs).line)
    THEN [result |-> "fail", kind |-> Head(segs).line.kind,
          line |-> Head(segs).id, seen |-> <<>>]
    ELSE IF IsWelcome(Head(segs).line)
    THEN [result |-> "welcome", kind |-> Head(segs).line.kind,
          line |-> Head(segs).id, seen |-> <<>>]
    ELSE LET r == HandshakeScan(Tail(segs)) IN
         [r EXCEPT !.seen = Ignored(Head(segs)) \o r.seen]

\* log.error("Hit error reading socket - ...") for recv() number n
ReadError(n) == LogEntry("ERR", "recv", 10 * n, "irc")

\* An exception that nothing in the loop catches: the task ends with it
Raised(what, id) == LogEntry("RAISE", what, id, "irc")

\* What the loop does once the login-failed line is seen: close() and return
AfterLoginFailRetry == "await_ok"

AfterLoginFailRaises == "failed"

AfterLoginFail == "returned"

\* One turn of the first while loop: recv(), then the for loop over the
\* segments.  A failed recv() is logged and retried.
IrcRecvHandshakeFrom(reads) ==
    /\ irc_message_task = "await_ok"
    /\ irc_reads < MaxIrcReads
    /\ irc_reads' = irc_reads + 1
    /\ \/ \* recv() raised: log.error(...) and continue
          /\ irc_log' = Append(irc_log, ReadError(irc_reads + 1))
          /\ irc_message_task' = AfterReadError(irc_message_task)
          /\ UNCHANGED chat_socket
       \/ \E data_raw \in reads :
            LET segs == SplitCRLF(data_raw, irc_reads + 1)
                r == HandshakeScan(segs)
                log == irc_log \o Received(segs) \o r.seen
            IN
            /\ chat_socket # "lost"
            /\ IF r.result = "fail"
               THEN /\ irc_log' = log
                         \o <<LogEntry("HS", r.kind, r.line, "irc"),
                              LogEntry("CLOSE", NoneV, r.line, "irc")>>
                    /\ chat_socket' = "closed"
                    /\ irc_message_task' = AfterLoginFail
               ELSE IF r.result = "welcome"
               THEN /\ irc_log' = Append(log, LogEntry("HS", r.kind, r.line, "irc"))
                    /\ irc_message_task' = "join"
                    /\ UNCHANGED chat_socket
               ELSE /\ irc_log' = log
                    /\ UNCHANGED <<irc_message_task, chat_socket>>
    /\ UNCHANGED <<obsVars, cleanupVars, socket, heartbeat_task, message_task, queueVars, irc_buf,
                   psVars, mainVars, pointsHist>>

IrcRecvHandshake == IrcRecvHandshakeFrom(RawReads)

\* await self.chat_socket.send(f"JOIN #{self.channel_name}"): the send is not
\* guarded, a failed send ends the task.
IrcJoin ==
    /\ irc_message_task = "join"
    /\ \E ok \in BOOLEAN :
          IF ok /\ chat_socket # "lost"
          THEN /\ irc_log' = Append(irc_log, LogEntry("JOIN", ChannelName, 0, "irc"))
               /\ irc_message_task' = "cap"
          ELSE /\ irc_message_task' = "failed"
               /\ irc_log' = Append(irc_log, Raised("JOIN", 0))
    /\ UNCHANGED <<obsVars, cleanupVars, socket, chat_socket, heartbeat_task, message_task,
                   queueVars, irc_buf, irc_reads, psVars, mainVars, pointsHist>>

\* await self.chat_socket.send("CAP REQ :twitch.tv/tags")
IrcCap ==
    /\ irc_message_task = "cap"
    /\ \E ok \in BOOLEAN :
          IF ok /\ chat_socket # "lost"
          THEN /\ irc_log' = Append(irc_log, LogEntry("CAP", "twitch.tv/tags", 0, "irc"))
               /\ irc_message_task' = "steady"
          ELSE /\ irc_message_task' = "failed"
               /\ irc_log' = Append(irc_log, Raised("CAP", 0))
    /\ UNCHANGED <<obsVars, cleanupVars, socket, chat_socket, heartbeat_task, message_task,
                   queueVars, irc_buf, irc_reads, psVars, mainVars, pointsHist>>

\* The for loop of the second while loop, from one await to the next: the
\* segments are taken in order; a PING segment stops at the await of its PONG
\* send, with that segment at the head of what is left.
RECURSIVE SteadyRunDeferPong(_, _, _)
SteadyRunDeferPong(segs, q, log) ==
    IF segs = <<>> THEN [task |-> "steady", buf |-> <<>>, q |-> q, log |-> log]
    ELSE LET l == Head(segs).line
             id == Head(segs).id
         IN
         IF IsBlank(l) THEN SteadyRunDeferPong(Tail(segs), q, log)
         ELSE IF IsPing(l)
         THEN LET r == SteadyRunDeferPong(Tail(segs), q,
                            Append(log, LogEntry("RECV", l.kind, id, "irc")))
              IN [task |-> "pong", buf |-> <<Head(segs)>> \o r.buf,
                  q |-> r.q, log |-> r.log]
         ELSE IF IsText(l) /\ ParseRaises(l.tags)
         THEN [task |-> "failed", buf |-> <<>>, q |-> q,
               log |-> log \o <<LogEntry("RECV", l.kind, id, "irc"),
                                Raised("parse", id)>>]
         ELSE IF IsText(l)
         THEN SteadyRunDeferPong(Tail(segs), Append(q, ChatEvent(l, id)),
                        log \o <<LogEntry("RECV", l.kind, id, "irc")>>
                            \o ParseCall(l, id)
                            \o <<LogEntry("ENQ", l.text, id, "irc")>>)
         ELSE SteadyRunDeferPong(Tail(segs), q,
                        Append(log, LogEntry("RECV", l.kind, id, "irc")))

RECURSIVE SteadyRun(_, _, _)
SteadyRun(segs, q, log) ==
    IF segs = <<>> THEN [task |-> "steady", buf |-> <<>>, q |-> q, log |-> log]
    ELSE LET l == Head(segs).line
             id == Head(segs).id
         IN
         IF IsBlank(l) THEN SteadyRun(Tail(segs), q, log)
         ELSE IF IsPing(l)
         THEN [task |-> "pong", buf |-> segs, q |-> q,
               log |-> Append(log, LogEntry("RECV", l.kind, id, "irc"))]
         ELSE IF IsText(l) /\ ParseRaises(l.tags)
         THEN [task |-> "failed", buf |-> <<>>, q |-> q,
               log |-> log \o <<LogEntry("RECV", l.kind, id, "irc"),
                                Raised("parse", id)>>]
         ELSE IF IsText(l)
         THEN SteadyRun(Tail(segs), Append(q, ChatEvent(l, id)),
                        log \o <<LogEntry("RECV", l.kind, id, "irc")>>
                            \o ParseCall(l, id)
                            \o <<LogEntry("ENQ", l.text, id, "irc")>>)
         ELSE SteadyRun(Tail(segs), q,
                        Append(log, LogEntry("RECV", l.kind, id, "irc")))

\* One turn of the second while loop: recv(), then the for loop up to its
\* first await.  A failed recv() is logged and retried.
IrcRecvSteadyFrom(reads) ==
    /\ irc_message_task = "steady"
    /\ irc_reads < MaxIrcReads
    /\ irc_reads' = irc_reads + 1
    /\ \/ \* recv() raised: log.error(...) and continue
          /\ irc_log' = Append(irc_log, ReadError(irc_reads + 1))
          /\ irc_message_task' = AfterReadError(irc_message_task)
          /\ UNCHANGED <<irc_buf, chat_queue>>
       \/ \E data_raw \in reads :
            LET segs == SplitCRLF(data_raw, irc_reads + 1)
                r == SteadyRun(segs, chat_queue, irc_log \o Received(segs))
            IN
            /\ chat_socket # "lost"
            /\ irc_message_task' = r.task
            /\ irc_buf' = r.buf
            /\ chat_queue' = r.q
            /\ irc_log' = r.log
    /\ UNCHANGED <<obsVars, cleanupVars, socket, chat_socket, heartbeat_task, message_task,
                   message_queue, psVars, mainVars, pointsHist>>

IrcRecvSteady == IrcRecvSteadyFrom(RawReads)

\* The reply to "PING <token>": line.split(' ', 1)[1], all that follows the
\* first space.
PongFrame(l, id) == LogEntry("PONG", l.tok, id, "irc")

\* await self.chat_socket.send(f"PONG ...") returns (the for loop goes on
\* with the segments left) or raises (nothing catches it: the task ends).
IrcPong ==
    /\ irc_message_task = "pong"
    /\ \E ok \in BOOLEAN :
          IF ok /\ chat_socket # "lost"
          THEN LET sent == Append(irc_log, PongFrame(Head(irc_buf).line, Head(irc_buf).id))
                   r == SteadyRun(Tail(irc_buf), chat_queue, sent)
               IN
               /\ irc_message_task' = r.task
               /\ irc_buf' = r.buf
               /\ chat_queue' = r.q
               /\ irc_log' = r.log
          ELSE /\ irc_message_task' = "failed"
               /\ irc_log' = Append(irc_log, Raised("PONG", Head(irc_buf).id))
               /\ UNCHANGED <<irc_buf, chat_queue>>
    /\ UNCHANGED <<obsVars, cleanupVars, socket, chat_socket, heartbeat_task, message_task,
                   message_queue, irc_reads, psVars, mainVars, pointsHist>>

\* The connection of the chat socket goes down (the peer or the network
\* closes it): from then on every recv() and send() on it raises
\* ConnectionClosed.  The attribute still refers to the socket.
ChatSocketLost ==
    /\ chat_socket = "open"
    /\ TaskLive(irc_message_task)
    /\ chat_socket' = "lost"
    /\ irc_log' = Append(irc_log, LogEntry("LOST", NoneV, 0, "peer"))
    /\ UNCHANGED <<obsVars, cleanupVars, socket, heartbeat_task, message_task,
                   irc_message_task, queueVars, irc_buf, irc_reads, psVars,
                   mainVars, pointsHist>>

\* ------------------------------------------------------------ specifications
RunSteps == RunConnect \/ RunListen \/ RunPass \/ RunNick

IrcSteps == IrcRecvHandshake \/ IrcJoin \/ IrcCap \/ IrcRecvSteady \/ IrcPong

PointsSteps == PointsGet \/ PointsUpdateReturns \/ PointsUpdateRaises

MessageLoopSteps == MessageLoopStart \/ MessageLoopGet \/ TtsDone

MainSteps ==
    \/ MainCreateTasks \/ MainTick \/ MainRestart \/ MainGrace
    \/ MainCancelled \/ CleanupSteps

Next ==
    \/ RunSteps
    \/ SendPing
    \/ HandleMessageReceive
    \/ IrcSteps
    \/ PointsSteps
    \/ MessageLoopSteps
    \/ MainSteps
    \/ MainTickCancelled
    \/ CancelMessageLoop
    \/ CancelPointsLoop

Spec == Init /\ [][Next]_vars


\* The chat socket alone: run(), the IRC receive loop, and the shutdown of
\* main() that calls cleanup().  The other tasks do not touch the chat socket,
\* the IRC task or irc_log.
NextIrc == RunSteps \/ MainCreateTasks \/ IrcSteps \/ MainCancelled \/ CleanupSteps

SpecIrc == Init /\ [][NextIrc]_vars

\* The redemption path: run(), the pub/sub receive loop, the points loop, and
\* main() with the message loop it supervises.  No chat line is read, so the
\* chat queue stays empty and the message loop can only fail where it reads
\* the settings.
NextPoints ==
    \/ RunSteps
    \/ HandleMessageReceive
    \/ PointsSteps
    \/ MessageLoopStart
    \/ MainSteps

SpecPoints == Init /\ [][NextPoints]_vars


\* What each background loop of the connector has left behind so far
HeartbeatIdle ==
    /\ heartbeat_task # "failed"
    /\ \A i \in 1..Len(ps_sent) : ps_sent[i].type # "PING"

ReceiveIdle == ps_reads = 0

ChatIdle == irc_reads = 0

\* The connector alone, driven by a client that calls run() and cleanup():
\* the heartbeat and both receive loops.  The three loops share no variable
\* (the heartbeat only writes to the pub/sub socket, each receive loop has its
\* socket, its queue and its log) and meet only in cleanup(), which cancels
\* them together; a behaviour lets one of them act, up to cleanup() and after.
NextConn ==
    \/ RunSteps
    \/ (ReceiveIdle /\ ChatIdle /\ SendPing)
    \/ (HeartbeatIdle /\ ChatIdle /\ HandleMessageReceive)
    \/ (HeartbeatIdle /\ ReceiveIdle /\ IrcRecvHandshake)
    \/ IrcJoin
    \/ IrcCap
    \/ (HeartbeatIdle /\ ReceiveIdle /\ IrcRecvSteady)
    \/ IrcPong
    \/ Cleanup
    \/ CleanupSteps

SpecConn == Init /\ [][NextConn]_vars

\* The same, with what asyncio guarantees: a task that can run is run, a
\* sleep that has expired returns, and a REST call in flight ends one way or
\* the other.  Reads from the socket and cancellations of main() are the
\* environment's and are not forced.
FairPoints ==
    /\ SpecPoints
    /\ WF_vars(RunSteps)
    /\ WF_vars(MainCreateTasks)
    /\ WF_vars(MainTick)
    /\ WF_vars(MainRestart)
    /\ WF_vars(MainGrace)
    /\ WF_vars(CleanupSteps)
    /\ WF_vars(MessageLoopStart)
    /\ WF_vars(PointsGet)
    /\ WF_vars(PointsUpdateReturns \/ PointsUpdateRaises)

\* The chat path: run(), the IRC receive loop, the message loop and the part
\* of main() that supervises it.  The peer acknowledges the login and then
\* sends chat: reads of one or two lines, each a PING or a PRIVMSG (one line
\* for every way the two loops treat a chat line).
WelcomeReads == {<<WelcomeLine>>}

ChatLines ==
    {Line("ping", t, NoneV, NoneV) : t \in PingTokens}
      \cup {Line("privmsg", NoneV, "alice", "hi"),
            Line("privmsg", NoneV, "alice", "!so"),
            Line("privmsg", NoneV, "bob", "hi"),
            TaggedLine(BadTags, "alice", "hi")}

ChatReads == {<<l>> : l \in ChatLines} \cup {<<l, m>> : l \in ChatLines, m \in ChatLines}

NextChat ==
    \/ RunSteps
    \/ MainCreateTasks
    \/ IrcRecvHandshakeFrom(WelcomeReads)
    \/ IrcJoin
    \/ IrcCap
    \/ IrcRecvSteadyFrom(ChatReads)
    \/ IrcPong
    \/ MessageLoopSteps
    \/ MainTick
    \/ MainRestart
    \/ MainGrace

SpecChat == Init /\ [][NextChat]_vars

\* --------------------------------------------- TwitchConnector.send_message
\* send_message() calls made by the tasks that handle chat
MaxSends == 2

\* The frame of send_message(content); the model has one content
PrivmsgFrame == LogEntry("PRIVMSG", ChannelName, 0, "send_message")

\* send_message() calls that have ended
SendsEnded ==
    Len(SelectSeq(irc_log, LAMBDA e : e.by = "send_message"))

\* A task that handles a chat event calls send_message(): it runs up to the
\* await of chat_socket.send.  There is no lock to take: the call goes ahead
\* whoever else is writing.  Such a task exists only once a chat event was
\* put on the chat queue.
SendMessageBegin ==
    /\ main_pc = "started"
    /\ chat_socket # "none"
    /\ \E i \in 1..Len(irc_log) : irc_log[i].op = "ENQ"
    /\ SendsEnded + send_tasks < MaxSends
    /\ send_tasks' = send_tasks + 1
    /\ UNCHANGED <<cogVars, chat_got, ps_in, orphaned, cleanupVars, connVars, queueVars,
                   ircVars, psVars, mainVars, pointsHist>>

\* await self.chat_socket.send(...) of one of the calls returns or raises
SendMessageEnd ==
    /\ send_tasks > 0
    /\ send_tasks' = send_tasks - 1
    /\ \E ok \in BOOLEAN :
          irc_log' = Append(irc_log,
                       IF ok THEN PrivmsgFrame
                       ELSE LogEntry("RAISE", "PRIVMSG", 0, "send_message"))
    /\ UNCHANGED <<cogVars, chat_got, ps_in, orphaned, cleanupVars, connVars, queueVars,
                   irc_buf, irc_reads, psVars, mainVars, pointsHist>>

\* The chat socket and all that writes to it: run(), the IRC receive loop
\* and tasks that call send_message().
NextSend ==
    \/ RunSteps
    \/ IrcRecvHandshakeFrom(WelcomeReads)
    \/ IrcJoin
    \/ IrcCap
    \/ IrcRecvSteadyFrom(ChatReads)
    \/ IrcPong
    \/ SendMessageBegin
    \/ SendMessageEnd

SpecSend == Init /\ [][NextSend]_vars

\* ----------------------------------------------------- run() called again
\* run() calls made on one connector
MaxRuns == 2
MaxInvocations == 2
MaxRedemptions == 1

\* run() calls made so far: each sends one PASS
RunsMade == Len(SelectSeq(irc_log, LAMBDA e : e.op = "PASS"))

\* A client of the connector calls run() on a connector whose run() has
\* returned before: run() tests nothing, it starts at its first statement.
RunAgain ==
    /\ main_pc = "started"
    /\ cleanup_pc = "none"
    /\ RunsMade < MaxRuns
    /\ main_pc' = "connect"
    /\ UNCHANGED <<obsVars, cleanupVars, connVars, queueVars, ircVars, psVars,
                   message_loop_task, points_loop_task, TTS_PROCESS_QUEUE,
                   cancels, pointsHist>>

\* One connector under a client that calls run() and cleanup() in any order
\* and number; the heartbeat runs and the chat login is acknowledged.
NextSession ==
    \/ RunSteps
    \/ RunAgain
    \/ Cleanup
    \/ CleanupSteps
    \/ SendPing
    \/ IrcRecvHandshakeFrom(WelcomeReads)
    \/ IrcJoin
    \/ IrcCap

SpecSession == Init /\ [][NextSession]_vars

\* The tag blocks of tagged chat: one or two elements "key=value" with
\* different keys, over the keys parse() looks at; a value may be empty.
TagElements ==
    {Tag(k, TRUE, v) : k \in {"mod", "subscriber", "vip"}, v \in {"", "0", "1"}}
      \cup {Tag("color", TRUE, v) : v \in {"", "#FF0000"}}

TagBlocks ==
    {<<a>> : a \in TagElements}
      \cup {p \in {<<a, b>> : a \in TagElements, b \in TagElements} :
                p[1].key # p[2].key}

TaggedReads == {<<TaggedLine(t, u, "hi")>> : t \in TagBlocks, u \in {"alice", "bob"}}

\* The chat socket under a peer that acknowledges the login and then sends
\* tagged chat, one line a read.
NextParse ==
    \/ RunSteps
    \/ IrcRecvHandshakeFrom(WelcomeReads)
    \/ IrcJoin
    \/ IrcCap
    \/ IrcRecvSteadyFrom(TaggedReads)

SpecParse == Init /\ [][NextParse]_vars

\* main() and its two dispatch loops when something cancels one of the loop
\* tasks: run(), the loops (the queues stay empty: nothing is read), the
\* supervision of main() and the cleanup() it calls.
NextCancel ==
    \/ RunSteps
    \/ SendPing
    \/ MainCreateTasks
    \/ MessageLoopStart
    \/ MainTick
    \/ MainTickCancelled
    \/ MainRestart
    \/ MainGrace
    \/ CancelMessageLoop
    \/ CancelPointsLoop
    \/ CleanupSteps

SpecCancel == Init /\ [][NextCancel]_vars

\* ------------------------------------------------------------------- cogs
\* The variables the cogs do not touch
coreVars == <<connVars, queueVars, ircVars, psVars, cleanupVars, mainVars,
              pointsHist, chat_got, ps_in, send_tasks, orphaned>>

\* A text, by what the cogs test on it: how it starts ("!", "http", "@" or a
\* word), the number of pieces text.split(" ") gives, and the length of its
\* longest piece.
Text(first, words, longest) == [first |-> first, words |-> words, longest |-> longest]

\* tts_settings.get('TTS Blacklist', list())
Blacklist == {"mallory"}

\* What get_settings() can give where the cogs read it
TtsSettings ==
    [Enabled : BOOLEAN, PointCost : {0, 500}, IgnoreReplies : BOOLEAN]

\* tts_text_replacement(text): with "Ignore Replies", a text that starts with
\* "@" loses its first piece, text.split(" ", 1)[1], which raises IndexError
\* when the text has one piece.  The word and regex replacements and the
\* emojis are those of a text they leave alone.
tts_text_replacement(text, settings) ==
    IF settings.IgnoreReplies /\ text.first = "@"
    THEN IF text.words = 1
         THEN [raises |-> TRUE, text |-> text]
         ELSE [raises |-> FALSE,
               text |-> Text("word", text.words - 1, text.longest)]
    ELSE [raises |-> FALSE, text |-> text]

\* The if / elif chain at the head of handle_twitch_tts
TtsFilter(username, chat) ==
    IF username \in Blacklist THEN "blacklisted"
    ELSE IF chat.first = "!" THEN "command"
    ELSE IF chat.first = "http" THEN "link"
    ELSE "pass"

\* The two tests at the head of handle_run_tts, with the limits
\* limits.get('Max Word Count', 100) and limits.get('Max Word Length', 15)
WithinLimits(message) ==
    /\ ~(message.words > 100)
    /\ ~(message.longest >= 15)

\* key = user_info.username if PER_USER_LOCK else "owo"
LockKey(username) == username

\* The invocations of handle_twitch_tts that are in the queue of a lock, the
\* holder first: asyncio.Lock wakes its waiters in the order they came.
LockQueue(key) ==
    SelectSeq(tts_lock, LAMBDA i : LockKey(tts_inv[i].user) = key)

\* A lock whose acquire() never waits
FirstInLineAny(waiters, i) == TRUE

\* acquire() returns for the invocation at the head of the queue
FirstInLine(waiters, i) == waiters # <<>> /\ Head(waiters) = i

\* __aexit__ of the lock, or the waiter of a cancelled acquire() leaving
Released(i) == SelectSeq(tts_lock, LAMBDA j : j # i)

\* handle_twitch_tts returns True whatever the task of handle_run_tts gave
AfterRunTts(ran) == "returned_true"

\* An invocation of handle_twitch_tts: who for, from which handler (and for
\* which redemption), the text given and the text handed to handle_run_tts,
\* where the invocation is, whether it had to await the lock, and whether
\* vlc_player.play() was called.
Invocation(user, via, rid, text, msg, pc) ==
    [user |-> user, via |-> via, rid |-> rid, text |-> text, msg |-> msg,
     pc |-> pc, waited |-> pc = "waiting", played |-> FALSE]

\* handle_twitch_tts from the call to its first await: the filters return
\* False, tts_text_replacement may raise, and the lock is taken at once when
\* nobody holds or awaits it.
TtsInvoke(user, chat, settings, via, rid) ==
    LET i == Len(tts_inv) + 1
        rep == tts_text_replacement(chat, settings)
        queue == Append(LockQueue(LockKey(user)), i)
    IN
    IF TtsFilter(user, chat) # "pass"
    THEN /\ tts_inv' = Append(tts_inv,
                Invocation(user, via, rid, chat, chat, "returned_false"))
         /\ UNCHANGED tts_lock
    ELSE IF rep.raises
    THEN /\ tts_inv' = Append(tts_inv,
                Invocation(user, via, rid, chat, chat, "raised"))
         /\ UNCHANGED tts_lock
    ELSE /\ tts_inv' = Append(tts_inv,
                Invocation(user, via, rid, chat, rep.text,
                           IF FirstInLine(queue, i) THEN "holding" ELSE "waiting"))
         /\ tts_lock' = Append(tts_lock, i)

\* tts.handle_message: a chat handler invoked for a chat event; it speaks
\* when TTS is enabled and costs no points.
TtsHandleMessageFrom(users, texts) ==
    /\ Len(tts_inv) < MaxInvocations
    /\ \E user \in users, chat \in texts, settings \in TtsSettings :
          /\ settings.Enabled
          /\ ~(settings.PointCost > 0)
          /\ TtsInvoke(user, chat, settings, "chat", 0)
    /\ UNCHANGED <<coreVars, cog_points, reward_log, tts_started>>

\* The waiter at the head of the queue of its lock is woken and holds it
TtsAcquire ==
    /\ \E i \in 1..Len(tts_inv) :
          /\ tts_inv[i].pc = "waiting"
          /\ FirstInLine(LockQueue(LockKey(tts_inv[i].user)), i)
          /\ tts_inv' = [tts_inv EXCEPT ![i].pc = "holding"]
    /\ UNCHANGED <<coreVars, cog_points, reward_log, tts_lock, tts_started>>

\* The task of handle_run_tts runs to its first await: a message over the
\* limits makes it return False with nothing played, and handle_twitch_tts
\* leaves the lock and returns; otherwise vlc_player.play() is called.
TtsRun ==
    /\ \E i \in 1..Len(tts_inv) :
          /\ tts_inv[i].pc = "holding"
          /\ IF WithinLimits(tts_inv[i].msg)
             THEN /\ tts_inv' = [tts_inv EXCEPT ![i].pc = "playing",
                                                ![i].played = TRUE]
                  /\ tts_started' = Append(tts_started, i)
                  /\ UNCHANGED tts_lock
             ELSE /\ tts_inv' = [tts_inv EXCEPT ![i].pc = AfterRunTts(FALSE)]
                  /\ tts_lock' = Released(i)
                  /\ UNCHANGED tts_started
    /\ UNCHANGED <<coreVars, cog_points, reward_log>>

\* vlc_player.is_playing() turns false: stop(), return True; handle_twitch_tts
\* leaves the lock and returns
TtsEnd ==
    /\ \E i \in 1..Len(tts_inv) :
          /\ tts_inv[i].pc = "playing"
          /\ tts_inv' = [tts_inv EXCEPT ![i].pc = AfterRunTts(TRUE)]
          /\ tts_lock' = Released(i)
    /\ UNCHANGED <<coreVars, cog_points, reward_log, tts_started>>

\* The task of handle_run_tts raises (the voice, vlc): the exception passes
\* through the async with, which leaves the lock
TtsRaise ==
    /\ \E i \in 1..Len(tts_inv) :
          /\ tts_inv[i].pc \in {"holding", "playing"}
          /\ tts_inv' = [tts_inv EXCEPT ![i].pc = "raised"]
          /\ tts_lock' = Released(i)
    /\ UNCHANGED <<coreVars, cog_points, reward_log, tts_started>>

\* The task of an invocation is cancelled.  Awaiting the lock: acquire()
\* raises CancelledError and the waiter leaves the queue.  Holding the lock
\* with the task of handle_run_tts not started: that task is cancelled, the
\* async with leaves the lock.  Playing: handle_run_tts catches the
\* CancelledError, stops the player and returns True, and handle_twitch_tts
\* goes on to leave the lock and return.
TtsCancel ==
    /\ \E i \in 1..Len(tts_inv) :
          /\ tts_inv[i].pc \in {"waiting", "holding", "playing"}
          /\ tts_inv' = [tts_inv EXCEPT ![i].pc =
                            IF tts_inv[i].pc = "playing"
                            THEN AfterRunTts(TRUE) ELSE "cancelled"]
          /\ tts_lock' = Released(i)
    /\ UNCHANGED <<coreVars, cog_points, reward_log, tts_started>>

\* ------------------------------------------------- the reward handlers
\* A redemption as the reward handlers read it
Redemption(id, title, user, input) ==
    [id |-> id, title |-> title, user |-> user, user_input |-> input]

NoRedemption == Redemption(0, NoneV, NoneV, NoneV)

\* reward_title.startswith("Show image")
IsShowImage(title) == title = "Show image"

\* What a handler returned for a redemption, as the points loop sees it:
\* "True", "False", "None", or "raised"
Outcome(r, handler, result) ==
    [rid |-> r.id, title |-> r.title, handler |-> handler, result |-> result]

\* Redemptions dispatched so far: each is offered to the images handler
Dispatched ==
    Len(SelectSeq(reward_log, LAMBDA o : o.handler = "images"))

\* The points loop takes a redemption off the queue.  It awaits the reward
\* handlers one after the other, in the order of the registry; for a result
\* that is not None it sends one status update.
RewardGetFrom(redemptions) ==
    /\ cog_points.pc = "get"
    /\ Dispatched < MaxRedemptions
    /\ \E r \in redemptions :
          /\ r.id = Dispatched + 1
          /\ cog_points' = [pc |-> "images", red |-> r]
    /\ UNCHANGED <<coreVars, reward_log, tts_inv, tts_lock, tts_started>>

\* images.handle_redemption: None unless the title starts with "Show image";
\* then True when the image was shown, False when it could not be fetched or
\* shown, None for a gallery or Tenor address the pattern does not match.
RewardImages ==
    /\ cog_points.pc = "images"
    /\ \E result \in {"True", "False", "None"} :
          /\ ~IsShowImage(cog_points.red.title) => result = "None"
          /\ reward_log' = Append(reward_log,
                                  Outcome(cog_points.red, "images", result))
    /\ cog_points' = [cog_points EXCEPT !.pc = "sounds"]
    /\ UNCHANGED <<coreVars, tts_inv, tts_lock, tts_started>>

\* sounds.handle_redemption: None unless the title starts with
\* "Play sound: "; then True, or False when vlc raised.
RewardSounds ==
    /\ cog_points.pc = "sounds"
    /\ \E result \in {"True", "False", "None"} :
          /\ IF IsPlaySound(cog_points.red.title)
             THEN result # "None" ELSE result = "None"
          /\ reward_log' = Append(reward_log,
                                  Outcome(cog_points.red, "sounds", result))
    /\ cog_points' = [cog_points EXCEPT !.pc = "tts"]
    /\ UNCHANGED <<coreVars, tts_inv, tts_lock, tts_started>>

\* tts.handle_redemption: False when TTS is off or costs no points; otherwise
\* what handle_twitch_tts gives for the display name and the input of the
\* redemption, whatever its title.
RewardTts ==
    /\ cog_points.pc = "tts"
    /\ Len(tts_inv) < MaxInvocations
    /\ \E settings \in TtsSettings :
          LET r == cog_points.red IN
          IF ~settings.Enabled \/ settings.PointCost <= 0
          THEN /\ reward_log' = Append(reward_log, Outcome(r, "tts", "False"))
               /\ cog_points' = [pc |-> "get", red |-> NoRedemption]
               /\ UNCHANGED <<tts_inv, tts_lock>>
          ELSE /\ TtsInvoke(r.user, r.user_input, settings, "reward", r.id)
               /\ cog_points' = [cog_points EXCEPT !.pc = "tts_wait"]
               /\ UNCHANGED reward_log
    /\ UNCHANGED <<coreVars, tts_started>>

\* handle_twitch_tts is over: the points loop has the result of the handler
RewardTtsDone ==
    /\ cog_points.pc = "tts_wait"
    /\ LET made == CHOOSE i \in 1..Len(tts_inv) :
                       /\ tts_inv[i].via = "reward"
                       /\ tts_inv[i].rid = cog_points.red.id
           pc == tts_inv[made].pc
       IN
       /\ pc \in {"returned_true", "returned_false", "raised", "cancelled"}
       /\ reward_log' = Append(reward_log,
             Outcome(cog_points.red, "tts",
                     IF pc = "returned_true" THEN "True"
                     ELSE IF pc = "returned_false" THEN "False"
                     ELSE "raised"))
    /\ cog_points' = [pc |-> "get", red |-> NoRedemption]
    /\ UNCHANGED <<coreVars, tts_inv, tts_lock, tts_started>>

\* The lock of the tts cog under chat: handle_message is invoked for chat
\* events of two users, concurrently, and its tasks may be cancelled.
NextTts ==
    \/ TtsHandleMessageFrom({"alice", "bob"},
                            {Text("word", 2, 5), Text("word", 101, 5)})
    \/ TtsAcquire
    \/ TtsRun
    \/ TtsEnd
    \/ TtsRaise
    \/ TtsCancel

SpecTts == Init /\ [][NextTts]_vars

\* The redemptions of the model: a title for each handler and one for none,
\* a user on the blacklist and one who is not, and a text for every way the
\* tts cog treats one (plain, command, link, reply, bare "@name", too many
\* words, a word too long)
CogRedemptions ==
    {Redemption(id, title, user, input) :
        id \in 1..MaxRedemptions,
        title \in {"Play sound: jab", "Show image", "Say it",
                   "Highlight my message"},
        user \in {"alice", "mallory"},
        input \in {Text("word", 2, 5), Text("!", 1, 3), Text("http", 1, 9),
                   Text("@", 3, 5), Text("@", 1, 4), Text("word", 101, 5),
                   Text("word", 1, 15)}}

\* The reward handlers of the cogs under the points loop
NextRewards ==
    \/ RewardGetFrom(CogRedemptions)
    \/ RewardImages
    \/ RewardSounds
    \/ RewardTts
    \/ RewardTtsDone
    \/ TtsRun
    \/ TtsEnd
    \/ TtsRaise
    \/ TtsCancel

SpecRewards == Init /\ [][NextRewards]_vars

\* main() with chat coming in and cancellations delivered to it: the chat
\* path of SpecChat, the TTS tasks it creates, and the handler of
\* CancelledError with the cleanup() it ends in.
NextShutdown ==
    \/ NextChat
    \/ MainCancelled
    \/ CleanupSteps

SpecShutdown == Init /\ [][NextShutdown]_vars

\* The chat socket with a peer that sends chat early: the reads before the
\* login is acknowledged hold PRIVMSG lines, alone, ahead of the welcome line
\* or behind it; the reads after it are those of SpecChat.
EarlyReads ==
    LET EarlyLines == {Line("privmsg", NoneV, "alice", "hi"),
                       Line("privmsg", NoneV, "bob", "hi")}
    IN
    WelcomeReads
      \cup {<<l>> : l \in EarlyLines}
      \cup {<<l, WelcomeLine>> : l \in EarlyLines}
      \cup {<<WelcomeLine, l>> : l \in EarlyLines}

NextEarly ==
    \/ RunSteps
    \/ IrcRecvHandshakeFrom(EarlyReads)
    \/ IrcJoin
    \/ IrcCap
    \/ IrcRecvSteadyFrom(ChatReads)
    \/ IrcPong

SpecEarly == Init /\ [][NextEarly]_vars

\* The chat socket as in SpecIrc, with a connection that can go down.
NextLost == NextIrc \/ ChatSocketLost

SpecLost == Init /\ [][NextLost]_vars

\* ===================================================================== claims
CallsFor(n) == {i \in 1..Len(calls) : calls[i].seq = n}

HandledAt(n) == {i \in 1..Len(handled) : handled[i].seq = n}

\* C1: every redemption event taken by the points loop is resolved once, to
\* None, True or False, and at most one update_redemption_status call is
\* ever issued for it, also once the loop has been cancelled; a call is
\* issued only for an event that was resolved.
C1_AtMostOneUpdatePerEvent ==
    /\ \A i \in 1..Len(handled) :
          /\ handled[i].status \in {NoneV, "True", "False"}
          /\ Cardinality(HandledAt(handled[i].seq)) = 1
          /\ Cardinality(CallsFor(handled[i].seq)) <= 1
    /\ \A i \in 1..Len(calls) : Cardinality(HandledAt(calls[i].seq)) = 1

\* C1 witness: the loop was cancelled after it resolved two events, one of
\* them with a status update.
C1_Witness ==
    /\ points_loop_task = "cancelled"
    /\ Len(handled) >= 2
    /\ Len(calls) >= 1

\* C2: an outcome of True issues exactly one call with status FULFILLED,
\* False exactly one with status CANCELED, None no call; every call carries
\* the id of the redemption, the id of its reward and the channel id.
C2_StatusUpdateMatchesOutcome ==
    \A i \in 1..Len(handled) :
       LET h == handled[i]
           cs == CallsFor(h.seq)
       IN
       /\ h.status = NoneV => cs = {}
       /\ h.status # NoneV =>
            /\ Cardinality(cs) = 1
            /\ \A c \in cs :
                 /\ calls[c].status = (IF h.status = "True" THEN "FULFILLED" ELSE "CANCELED")
                 /\ calls[c].redemption_id = h.id
                 /\ calls[c].reward_id = h.reward_id
                 /\ calls[c].channel_id = ChannelId

\* C2 witness: all three outcomes have occurred.
C2_Witness ==
    /\ \E i \in 1..Len(handled) : handled[i].status = "True"
    /\ \E i \in 1..Len(handled) : handled[i].status = "False"
    /\ \E i \in 1..Len(handled) : handled[i].status = NoneV

C4_FaultIssuesNoCall ==
    \A i \in 1..Len(handled) : handled[i].fault => CallsFor(handled[i].seq) = {}

\* C4 amended: a fault while the sound is played is resolved to False:
\* exactly one call is issued for that event, with status CANCELED.
C4_FaultIssuesCanceled ==
    \A i \in 1..Len(handled) :
       handled[i].fault =>
          /\ handled[i].status = "False"
          /\ Cardinality(CallsFor(handled[i].seq)) = 1
          /\ \A c \in CallsFor(handled[i].seq) : calls[c].status = "CANCELED"

\* C4 witness: a fault was handled and its call was issued.
C4_Witness ==
    \E i \in 1..Len(handled) : handled[i].fault /\ CallsFor(handled[i].seq) # {}

\* C5 as claimed: whenever the message loop task or the points loop task has
\* ended with an exception, a fresh task of that loop is started (unless
\* main() has shut down).
C5_BothLoopsRestarted ==
    /\ (message_loop_task = "failed") ~> (message_loop_task # "failed" \/ main_pc = "done")
    /\ (points_loop_task = "failed") ~> (points_loop_task # "failed" \/ main_pc = "done")

InQueue(n) == \E i \in 1..Len(message_queue) :
                 message_queue[i].seq = n /\ message_queue[i].kind = "redeem"

\* C6 as claimed: after a fault in the body of the points loop, every
\* redemption waiting on the queue is taken by a replacement task (unless
\* main() has shut down).
C6_OutageEventsProcessed ==
    \A n \in 1..MaxPsReads :
       (points_exc = "body" /\ InQueue(n)) ~> (~InQueue(n) \/ main_pc = "done")


\* ------------------------------------------------------------ the chat socket
Entries(log, ops, bys) == {i \in 1..Len(log) : log[i].op \in ops /\ log[i].by \in bys}

FrameOps == {"PASS", "NICK", "JOIN", "CAP", "PONG"}

\* The frames written to the chat socket, in order
Frames(log) == SelectSeq(log, LAMBDA e : e.op \in FrameOps)

\* What run() and the receive loop have done on the chat socket
LoopPart(log) == SelectSeq(log, LAMBDA e : e.by \in {"run", "irc"})

\* The login-unsuccessful line was seen during the handshake
LoginFailedSeen ==
    \E i \in Entries(irc_log, {"HS"}, {"irc"}) : irc_log[i].arg = "loginfail"

\* C7 as claimed: once the login-unsuccessful line was seen, the session is
\* LoginFailed and close() was invoked on the chat socket exactly once, also
\* after cleanup().
C7_CloseExactlyOnce ==
    LoginFailedSeen =>
       /\ irc_message_task = "returned"
       /\ Cardinality(Entries(irc_log, {"CLOSE"}, {"irc", "cleanup"})) = 1

\* C7 amended: once the login-unsuccessful line was seen, the session is
\* LoginFailed, the chat socket is closed and the receive loop has invoked
\* close() exactly once; cleanup() invokes close() on the chat socket once
\* more, which makes two invocations once main() has shut down.
C7_CloseOnceByLoop ==
    LoginFailedSeen =>
       /\ irc_message_task = "returned"
       /\ chat_socket = "closed"
       /\ Cardinality(Entries(irc_log, {"CLOSE"}, {"irc"})) = 1
       /\ Cardinality(Entries(irc_log, {"CLOSE"}, {"cleanup"}))
             = (IF main_pc = "done" THEN 1 ELSE 0)

\* C7 witness: the login failed and main() has shut down since.
C7_Witness == LoginFailedSeen /\ main_pc = "done"

\* C8: once the login-unsuccessful line was seen the receive loop has ended:
\* from then on it writes no frame, reads nothing and puts nothing on the
\* chat queue, and no PASS or NICK is written again.
C8_LoginFailedIsTerminal ==
    [][LoginFailedSeen =>
          /\ irc_message_task' = "returned"
          /\ irc_reads' = irc_reads
          /\ LoopPart(irc_log') = LoopPart(irc_log)
          /\ Len(chat_queue') <= Len(chat_queue)]_vars

\* C8 witness: the login failed on the first read, with reads to spare, and
\* main() shut down afterwards.
C8_Witness ==
    /\ LoginFailedSeen
    /\ irc_reads < MaxIrcReads
    /\ main_pc = "done"

\* C9: the first frame on the chat socket is PASS oauth:<token>, the second
\* NICK <channel_name>; JOIN #<channel_name> and then CAP REQ are written at
\* most once each, as the third and fourth frame, and only after a line that
\* ends with the welcome text was received; PONGs and puts on the chat queue
\* come after the CAP REQ; in steady state both have been written.
C9_HandshakeOrder ==
    LET F == Frames(irc_log) IN
    /\ Len(F) >= 1 => F[1].op = "PASS" /\ F[1].arg = AccessToken
    /\ Len(F) >= 2 => F[2].op = "NICK" /\ F[2].arg = ChannelName
    /\ Len(F) >= 3 => F[3].op = "JOIN" /\ F[3].arg = ChannelName
    /\ Len(F) >= 4 => F[4].op = "CAP"
    /\ \A i \in 5..Len(F) : F[i].op = "PONG"
    /\ \A j \in Entries(irc_log, {"JOIN"}, {"irc"}) :
          \E i \in 1..(j - 1) : irc_log[i].op = "HS" /\ irc_log[i].arg = "welcome"
    /\ \A j \in Entries(irc_log, {"PONG", "ENQ"}, {"irc"}) :
          \E i \in 1..(j - 1) : irc_log[i].op = "CAP"
    /\ irc_message_task \in {"steady", "pong"} => Len(F) >= 4

\* C9 witness: after the handshake a PONG was written and a chat event was
\* put on the queue.
C9_Witness ==
    /\ Entries(irc_log, {"PONG"}, {"irc"}) # {}
    /\ Entries(irc_log, {"ENQ"}, {"irc"}) # {}

SteadyOps == {"RECV", "ENQ", "PONG"}

\* C10: in steady state the lines are taken up in the order received, and
\* the PONG that answers a PING line is written before any later line is
\* taken up or put on the chat queue.
C10_PongBeforeLaterLines ==
    LET S == Entries(irc_log, SteadyOps, {"irc"}) IN
    /\ \A i, j \in S : (i < j) => irc_log[i].line <= irc_log[j].line
    /\ \A i, j \in Entries(irc_log, {"RECV"}, {"irc"}) :
          (i < j) => irc_log[i].line < irc_log[j].line
    /\ \A i \in Entries(irc_log, {"RECV"}, {"irc"}) :
          irc_log[i].arg = "ping" =>
             \A j \in S :
                (j > i /\ irc_log[j].line > irc_log[i].line) =>
                   \E k \in (i + 1)..(j - 1) :
                      /\ irc_log[k].op = "PONG"
                      /\ irc_log[k].line = irc_log[i].line

\* C10 witness: one read held a PING and then a PRIVMSG; the PONG was written
\* and the chat event was put on the queue.
C10_Witness ==
    \E i, j \in 1..Len(irc_log) :
       /\ i < j
       /\ irc_log[i].op = "PONG"
       /\ irc_log[j].op = "ENQ"
       /\ irc_log[j].line = irc_log[i].line + 1

\* PING lines the peer has sent on the chat socket / PONG frames written
PingsReceived == {i \in Entries(irc_log, {"IN"}, {"peer"}) : irc_log[i].arg # NoneV}

PongsSent == Entries(irc_log, {"PONG"}, {"irc"})

\* C11 as claimed: every PONG frame answers a PING line received before it
\* and carries its token; no PING line is answered twice, so there are never
\* more PONGs than PINGs; and once the receive loop has gone past a read
\* (unless it was cancelled), every PING line of that read has its PONG.
C11_EveryPingAnswered ==
    /\ \A j \in PongsSent :
          \E i \in PingsReceived :
             /\ i < j
             /\ irc_log[i].line = irc_log[j].line
             /\ irc_log[i].arg = irc_log[j].arg
    /\ \A j, k \in PongsSent : irc_log[j].line = irc_log[k].line => j = k
    /\ Cardinality(PongsSent) <= Cardinality(PingsReceived)
    /\ irc_message_task \notin {"pong", "cancelled"} =>
          \A i \in PingsReceived :
             \E j \in PongsSent : irc_log[j].line = irc_log[i].line

\* The segments the peer has sent / the lines the receive loop has taken up
SegmentsReceived == Entries(irc_log, {"IN"}, {"peer"})

LinesTaken == Entries(irc_log, {"HS", "RECV"}, {"irc"})

\* C12 as claimed: the lines are taken up in the order received, each once,
\* and whenever the receive loop has gone past a read (it waits for the next
\* one, or sends JOIN and CAP REQ), every non-empty segment received so far
\* was taken up: none was discarded.
C12_NoSegmentDiscarded ==
    /\ \A i, j \in LinesTaken : (i < j) => irc_log[i].line < irc_log[j].line
    /\ irc_message_task \in {"await_ok", "join", "cap", "steady"} =>
          \A i \in SegmentsReceived :
             \E j \in LinesTaken : irc_log[j].line = irc_log[i].line

\* run() has not returned yet: main() is inside `await twitch.run()`
InRun == main_pc \in {"connect", "listen", "pass", "nick"}

WelcomeSeen ==
    \E i \in Entries(irc_log, {"HS"}, {"irc"}) : irc_log[i].arg = "welcome"

\* C13 as claimed: run() has returned only if the welcome line was received,
\* and a login failure reaches the caller of run(): main() does not go on
\* after it.
C13_RunReturnsAfterWelcome ==
    /\ ~InRun => WelcomeSeen
    /\ LoginFailedSeen => main_pc = "failed"

\* C13 amended: run() returns once PASS and NICK are written and the receive
\* task is created: until then nothing was read from the chat socket, so the
\* welcome line and the login-unsuccessful line are only ever seen after
\* run() has returned; a login failure ends the receive task without an
\* exception and main() goes on as after a successful login.
C13_RunReturnsBeforeLogin ==
    /\ InRun =>
          /\ irc_message_task = "none"
          /\ irc_reads = 0
          /\ ~WelcomeSeen
          /\ ~LoginFailedSeen
    /\ main_pc = "started" =>
          /\ irc_message_task # "none"
          /\ Entries(irc_log, {"PASS"}, {"run"}) # {}
          /\ Entries(irc_log, {"NICK"}, {"run"}) # {}
    /\ LoginFailedSeen =>
          /\ irc_message_task = "returned"
          /\ main_pc \in {"started", "sleep", "backoff", "grace", "cleanup", "done"}

\* C13 witness: the login failed, and main() created the dispatch loops
\* afterwards and is polling.
C13_Witness ==
    /\ LoginFailedSeen
    /\ main_pc = "sleep"
    /\ message_loop_task = "start"
    /\ points_loop_task = "get"

\* The state cleanup() is to leave behind: the three background tasks are
\* finished (cancelled, or ended before) and both sockets are closed.
AllStopped ==
    /\ TaskDone(heartbeat_task)
    /\ TaskDone(message_task)
    /\ TaskDone(irc_message_task)
    /\ socket = "closed"
    /\ chat_socket = "closed"

\* C14 as claimed: no cleanup() call raises, whatever the state it is made
\* in, and once a call has ended the three background loops are cancelled and
\* both sockets are closed.
C14_CleanupNeverRaises ==
    /\ \A i \in 1..Len(cleanup_log) : cleanup_log[i] = "ok"
    /\ (cleanup_log # <<>> /\ cleanup_pc = "none") => AllStopped

\* cleanup() has requested the cancellations: a call is at one of its awaits,
\* or a call has completed
CleanupCancelled == cleanup_pc # "none" \/ (\E i \in 1..Len(cleanup_log) : cleanup_log[i] = "ok")

PingsSent(sent) == SelectSeq(sent, LAMBDA f : f.type = "PING")

ClosesSent(sent) == SelectSeq(sent, LAMBDA f : f.type = "CLOSE")

BackgroundDone ==
    /\ TaskDone(heartbeat_task)
    /\ TaskDone(message_task)
    /\ TaskDone(irc_message_task)

\* C15: a step of cleanup() that closes a socket is taken with the heartbeat
\* and both receive tasks already finished (cancelled, or ended before); and
\* from the cancellations on, also once cleanup() has completed, no step
\* writes a PING to the pub/sub socket, writes a frame to the chat socket,
\* takes up a line or changes one of the two queues.
C15_CancelledBeforeClose ==
    /\ [][(Len(ClosesSent(ps_sent')) > Len(ClosesSent(ps_sent))
            \/ Cardinality(Entries(irc_log', {"CLOSE"}, {"cleanup"}))
                 > Cardinality(Entries(irc_log, {"CLOSE"}, {"cleanup"})))
          => (BackgroundDone /\ cleanup_pc # "none")]_vars
    /\ [][CleanupCancelled =>
            /\ BackgroundDone'
            /\ PingsSent(ps_sent') = PingsSent(ps_sent)
            /\ LoopPart(irc_log') = LoopPart(irc_log)
            /\ chat_queue' = chat_queue
            /\ message_queue' = message_queue
            /\ ps_reads' = ps_reads
            /\ irc_reads' = irc_reads]_vars

\* C15 witness: a PING line was taken up and the cancellation reached the
\* receive task at the await of the PONG send; cleanup() has completed and
\* the PONG was never written.
C15_Witness ==
    /\ cleanup_log = <<"ok">>
    /\ irc_message_task = "cancelled"
    /\ heartbeat_task = "cancelled"
    /\ message_task = "cancelled"
    /\ \E i \in Entries(irc_log, {"RECV"}, {"irc"}) :
          /\ irc_log[i].arg = "ping"
          /\ \A j \in PongsSent : irc_log[j].line # irc_log[i].line

ReadErrors == Entries(irc_log, {"ERR"}, {"irc"})

SendFailures ==
    {i \in Entries(irc_log, {"RAISE"}, {"irc"}) : irc_log[i].arg \in {"JOIN", "CAP", "PONG"}}

\* C17 as claimed: after a send of JOIN, CAP REQ or PONG has failed, the chat
\* receive loop has not ended with the exception: it is still running (or was
\* cancelled from outside later).
C17_SendFailureKeepsLoop ==
    SendFailures # {} =>
       (TaskLive(irc_message_task) \/ irc_message_task = "cancelled")

\* C18 as claimed: no receive loop ends because of what it read: the pub/sub
\* loop never ends with an exception (the only statements of its body that
\* can raise decode the frame), and the exception of TwitchChatter.parse
\* never leaves the chat receive loop.
C18_UnparseableIsDropped ==
    /\ message_task # "failed"
    /\ \A i \in Entries(irc_log, {"RAISE"}, {"irc"}) : irc_log[i].arg # "parse"

\* C19 as claimed: a PING send that fails does not end the heartbeat loop:
\* from run() on the heartbeat task is running until it is cancelled.
C19_HeartbeatSurvivesSendFailure ==
    heartbeat_task \in {"none", "send", "cancelled"}

\* C20 as claimed: an update_redemption_status call that raises does not end
\* the points loop, and the call is not made again for that event.
C20_UpdateFailureKeepsLoop ==
    /\ points_exc = "update" =>
          (TaskLive(points_loop_task) \/ points_loop_task = "cancelled")
    /\ \A i \in 1..Len(calls) : Cardinality(CallsFor(calls[i].seq)) = 1

\* ---------------------------------------------------------------- C21
\* The PRIVMSG lines the steady-state loop has come to, in the order received
ChatReceived == SelectSeq(irc_log, LAMBDA e : e.op = "RECV" /\ e.arg = "privmsg")

\* The puts on the chat queue, in order
ChatEnqueued == SelectSeq(irc_log, LAMBDA e : e.op = "ENQ")

\* The events the message loop has taken so far, then those still queued
ChatTaken == [i \in 1..Len(chat_got) |-> chat_got[i].event] \o chat_queue

\* C21: the chat queue is an unbounded FIFO: the (Chatter, text) pairs that
\* the message loop has dequeued, followed by those still on the queue, are
\* exactly the PRIVMSG lines received in steady state, one pair per line, in
\* the order the lines were received and with the text of the line; no put
\* fails.
C21_ChatQueueIsFifo ==
    /\ Len(ChatTaken) = Len(ChatReceived)
    /\ \A i \in 1..Len(ChatTaken) :
          i <= Len(ChatReceived) => ChatTaken[i].line = ChatReceived[i].line
    /\ Len(ChatEnqueued) = Len(ChatReceived)
    /\ \A i \in 1..Len(ChatTaken) :
          i <= Len(ChatEnqueued) => ChatTaken[i].text = ChatEnqueued[i].arg

\* ---------------------------------------------------------------- C22
\* C22: every event put on the chat queue is consumed exactly once by the
\* message loop, whatever faults and restarts the loop goes through: no event
\* is taken twice, none is both taken and still queued, none put on the queue
\* is missing from it without having been taken, and every event taken was
\* handed on (to the TTS handling, whose filters may skip it), never dropped
\* by a fault of the loop.
C22_ConsumedOnceAndDispatched ==
    /\ \A i, j \in 1..Len(chat_got) :
          i # j => chat_got[i].event.line # chat_got[j].event.line
    /\ \A i \in 1..Len(chat_got) : \A j \in 1..Len(chat_queue) :
          chat_got[i].event.line # chat_queue[j].line
    /\ Len(chat_got) + Len(chat_queue) = Len(ChatEnqueued)
    /\ \A i \in 1..Len(chat_got) : chat_got[i].outcome # "raised"

\* ---------------------------------------------------------------- C23
\* The events for which a TTS task was created
TtsStarted == SelectSeq(chat_got, LAMBDA g : g.outcome = "tts")

\* C23: chat handling is fire-and-forget: a step in which the message loop
\* takes an event leaves the loop at chat_queue.get() again (or ended by a
\* fault), never waiting for the TTS task it created; and whenever the loop is
\* running and an event is queued the loop can take it, whatever state the
\* TTS tasks of earlier events are in.
C23_FireAndForget ==
    /\ [][Len(chat_got') > Len(chat_got)
            => message_loop_task' \in {"get", "failed"}]_vars
    /\ [](/\ TaskLive(message_loop_task)
          /\ message_loop_task # "start"
          /\ chat_queue # <<>>
          => ENABLED MessageLoopGet)

\* C23 witness: two events were taken and a TTS task created for each, and
\* the task of the first is still running (no TTS task was removed).
C23_Witness ==
    /\ Len(TtsStarted) >= 2
    /\ Len(TTS_PROCESS_QUEUE) = Len(TtsStarted)
    /\ TTS_PROCESS_QUEUE[1] = "run"
    /\ message_loop_task = "get"

\* ---------------------------------------------------------------- C24
\* s is strictly increasing in its seq fields
Ascending(s) == \A i, j \in 1..Len(s) : i < j => s[i].seq < s[j].seq

\* The status updates the events handled so far call for
UpdatesDue == SelectSeq(handled, LAMBDA h : h.status # NoneV)

\* C24: the points loop handles redemptions one at a time: a status update is
\* in flight only while the loop waits for it, a new update is issued only
\* when none is in flight, and an event is taken from the redemption queue
\* only when the loop is at get() with the handling of every earlier event
\* finished (each update that was due has been issued and none is in flight);
\* events are handled, and updates issued, in the order they were queued.
C24_PointsLoopSequential ==
    /\ [](points_loop_task = "updating" => points_cur # 0)
    /\ [](TaskLive(points_loop_task) /\ points_cur # 0
            => points_loop_task = "updating")
    /\ [](Ascending(handled) /\ Ascending(calls))
    /\ [][Len(calls') > Len(calls)
            => /\ points_cur = 0
               /\ Len(calls') = Len(calls) + 1
               /\ points_cur' = calls'[Len(calls')].seq]_vars
    /\ [][Len(message_queue') < Len(message_queue)
            => /\ points_loop_task = "get"
               /\ points_cur = 0
               /\ Len(calls) = Len(UpdatesDue)
               /\ \A i \in 1..Len(handled) : handled[i].seq < Head(message_queue).seq]_vars

\* C24 witness: the update of one event has ended and the update of a later
\* event is in flight.
C24_Witness ==
    /\ Len(calls) >= 2
    /\ points_loop_task = "updating"
    /\ points_cur = calls[Len(calls)].seq

\* ---------------------------------------------------------------- C25
\* The writers that are inside a send on the chat socket: run() at its PASS
\* or NICK, the receive loop at its JOIN, CAP or PONG, and the send_message()
\* calls in flight
WritesInProgress ==
    send_tasks
      + (IF main_pc \in {"pass", "nick"} THEN 1 ELSE 0)
      + (IF irc_message_task \in {"join", "cap", "pong"} THEN 1 ELSE 0)

\* C25: writes to the chat socket are serialized: at no time are two writers
\* inside a send on the chat socket.
C25_WritesSerialized == WritesInProgress <= 1

\* ---------------------------------------------------------------- C26
\* C26: whatever run() and cleanup() calls were made on the connector, at
\* most one pub/sub socket and one chat socket are open and at most one
\* heartbeat task, one pub/sub receive task and one IRC receive task are
\* live: the ones the connector's attributes refer to.  No socket is open and
\* no task is live that the connector no longer refers to.
C26_OneSessionAtATime ==
    /\ orphaned.sockets = 0
    /\ orphaned.tasks = 0

\* ---------------------------------------------------------------- C27
\* The frames delivered so far that are MESSAGE frames on the points topic
Redeems == SelectSeq(ps_in, LAMBDA f : f.redeem)

HasTag(tags, key, val) ==
    \E i \in 1..Len(tags) : tags[i].key = key /\ tags[i].val = val

\* The parse() calls and the puts of the lines taken so far
ParseCalls == Entries(irc_log, {"PARSE"}, {"irc"})

\* C28: for every tagged PRIVMSG line whose tag block is well formed, one
\* pair is put on the chat queue; it carries the username and the message of
\* the line, the moderator / subscriber / vip flag is true exactly when the
\* block holds mod=1 / subscriber=1 / vip=1 (a missing tag and an empty value
\* give false), and the colour is the value of color=, absent when the tag is
\* missing or empty.
C28_FlagsFollowTags ==
    /\ Len(chat_queue) = Cardinality(ParseCalls)
    /\ \A p \in ParseCalls :
          \E n \in 1..Len(chat_queue) :
             LET ev == chat_queue[n]
                 tags == irc_log[p].arg
             IN
             /\ ev.line = irc_log[p].line
             /\ \E e \in Entries(irc_log, {"ENQ"}, {"irc"}) :
                   irc_log[e].line = ev.line /\ irc_log[e].arg = ev.text
             /\ ev.chatter.username \in {"alice", "bob"}
             /\ ev.chatter.moderator <=> HasTag(tags, "mod", "1")
             /\ ev.chatter.subscriber <=> HasTag(tags, "subscriber", "1")
             /\ ev.chatter.vip <=> HasTag(tags, "vip", "1")
             /\ IF HasTag(tags, "color", "#FF0000")
                THEN ev.chatter.colour = "#FF0000"
                ELSE ev.chatter.colour = NoneV

\* C28 witness: a line with an empty mod= and subscriber=1 was parsed and
\* its pair is on the queue, subscriber and not moderator.
C28_Witness ==
    \E p \in ParseCalls :
       /\ HasTag(irc_log[p].arg, "mod", "")
       /\ HasTag(irc_log[p].arg, "subscriber", "1")
       /\ \E n \in 1..Len(chat_queue) :
             /\ chat_queue[n].line = irc_log[p].line
             /\ chat_queue[n].chatter.subscriber
             /\ ~chat_queue[n].chatter.moderator

\* ---------------------------------------------------------------- C29
\* The steady-state lines that are neither blank, nor a PING, nor a PRIVMSG
UnrecognizedKinds == {"other", "loginfail", "welcome"}

UnrecognizedTaken ==
    {i \in Entries(irc_log, {"RECV"}, {"irc"}) : irc_log[i].arg \in UnrecognizedKinds}

\* What the receive loop did after entry i of the log
LoopAfter(i) == {j \in Entries(irc_log, {"HS", "RECV", "PARSE", "ENQ", "PONG", "JOIN", "CAP", "ERR", "RAISE", "CLOSE"}, {"irc"}) : j > i}

\* C29: a steady-state line that is neither blank, nor a PING, nor a PRIVMSG
\* (the login-unsuccessful and welcome lines included) has no effect: nothing
\* is sent, enqueued, raised or closed for it, and the loop goes on in steady
\* state: what it does next is take up the next line or read again.
C29_UnrecognizedHasNoEffect ==
    \A i \in UnrecognizedTaken :
       /\ \A j \in 1..Len(irc_log) :
             (j # i /\ irc_log[j].line = irc_log[i].line) => irc_log[j].op = "IN"
       /\ IF LoopAfter(i) = {}
          THEN /\ irc_message_task \in {"steady", "cancelled"}
               /\ irc_buf = <<>>
          ELSE LET j == CHOOSE k \in LoopAfter(i) : \A m \in LoopAfter(i) : k <= m
               IN irc_log[j].op \in {"RECV", "ERR"}
       /\ \A j \in Entries(irc_log, {"CLOSE"}, {"irc"}) : j < i

\* C29 witness: the login-unsuccessful line arrived in steady state, was
\* taken up, and the loop waits for the next read with the socket open.
C29_Witness ==
    /\ \E i \in UnrecognizedTaken : irc_log[i].arg = "loginfail"
    /\ irc_message_task = "steady"
    /\ chat_socket = "open"

\* ---------------------------------------------------------------- C30
\* C30: main() leaves the recovery of the message loop for its normal sleep
\* only with a replacement task that is alive at the grace-period check; a
\* replacement that is done at the check sends main() back to the backoff
\* and restart (or, when main() is cancelled there, to its shutdown), never
\* to the normal sleep.
C30_RecoveryEndsWithLiveTask ==
    /\ [][(main_pc = "grace" /\ main_pc' = "sleep")
            => /\ TaskLive(message_loop_task)
               /\ message_loop_task' = message_loop_task]_vars
    /\ [][(main_pc = "grace" /\ TaskDone(message_loop_task) /\ main_pc' # "grace")
            => main_pc' \in {"backoff", "cleanup", "failed"}]_vars

\* C30 witness: the replacement task has ended before the grace-period check
\* is made.
C30_Witness ==
    /\ main_pc = "grace"
    /\ message_loop_task = "failed"
    /\ cancels = 0

\* ---------------------------------------------------------------- C31
\* C31: with no cancellation delivered to main(), the cancellation of one
\* dispatch loop task leaves everything else as it is: the other dispatch
\* loop is not cancelled, none of the connector's three background tasks is
\* cancelled, no socket is closed and cleanup() is not called.
C31_CancelOneLoopOnly ==
    cancels = 0 =>
       /\ ~(message_loop_task = "cancelled" /\ points_loop_task = "cancelled")
       /\ heartbeat_task # "cancelled"
       /\ message_task # "cancelled"
       /\ irc_message_task # "cancelled"
       /\ socket # "closed"
       /\ chat_socket # "closed"
       /\ cleanup_pc = "none"
       /\ cleanup_log = <<>>

\* ---------------------------------------------------------------- C32
\* The chat connection is down and the receive loop is at a recv()
LostAtRead ==
    /\ chat_socket = "lost"
    /\ irc_message_task \in {"await_ok", "steady"}

\* The entries a step adds to the log of the chat socket
AddedOps ==
    {irc_log'[i].op : i \in (Len(irc_log) + 1)..Len(irc_log')}

ListensSent == SelectSeq(ps_sent, LAMBDA f : f.type = "LISTEN")

\* The frames run() sent on the chat socket so far
LoginFrames(op) == SelectSeq(irc_log, LAMBDA e : e.op = op)

\* C33: every LISTEN frame on the pub/sub socket names the channel points
\* topic of the channel id and carries the access token; a run() has sent
\* one LISTEN frame by the time it sends PASS and none before, so there are
\* as many LISTEN frames as PASS frames, plus one while run() is between the
\* two; as long as no LISTEN frame has been sent, the pub/sub receive loop
\* does not exist and has read nothing, and nothing has been sent on the chat
\* socket; the step that sends the LISTEN frame sends one, ahead of the PASS
\* and NICK of the same run(), and is the step that creates the receive loop.
C33_ListenOncePerRunFirst ==
    /\ [](\A i \in 1..Len(ListensSent) :
            /\ ListensSent[i].topic = <<"channel-points-channel-v1", ChannelId>>
            /\ ListensSent[i].auth_token = AccessToken)
    /\ [](Len(ListensSent) =
            Len(LoginFrames("PASS")) + (IF main_pc = "pass" THEN 1 ELSE 0))
    /\ [](Len(LoginFrames("NICK")) =
            Len(LoginFrames("PASS")) - (IF main_pc = "nick" THEN 1 ELSE 0))
    /\ [](Len(ListensSent) = 0 =>
            /\ message_task = "none"
            /\ ps_reads = 0 /\ ps_errors = 0 /\ message_queue = <<>>
            /\ irc_log = <<>>)
    /\ [][Len(ListensSent') # Len(ListensSent) =>
            /\ Len(ListensSent') = Len(ListensSent) + 1
            /\ Len(LoginFrames("PASS")) = Len(ListensSent)
            /\ Len(LoginFrames("NICK")) = Len(ListensSent)
            /\ UNCHANGED <<irc_log, ps_reads, ps_errors>>
            /\ message_task' = "recv"]_vars

\* C33 witness: run() has returned, the pub/sub receive loop has read a
\* frame, and one LISTEN frame was sent.
C33_Witness ==
    /\ main_pc = "started"
    /\ Len(ListensSent) = 1
    /\ Len(LoginFrames("NICK")) = 1
    /\ ps_reads > 0
    /\ cleanup_pc = "none"

\* ---------------------------------------------------------------- C34
\* The receive loop has taken a welcome line
WelcomeTaken ==
    \E i \in 1..Len(irc_log) : irc_log[i].op = "HS" /\ irc_log[i].arg = "welcome"

\* The lines the first while loop went over and did nothing with
IgnoredLines ==
    {i \in 1..Len(irc_log) : irc_log[i].op = "HS" /\ irc_log[i].arg = "ignored"}

\* C34: as long as the receive loop has not taken a welcome line, the chat
\* queue is empty, no event was ever put on it and no line was matched as a
\* chat line; a step of the loop that is awaiting the welcome leaves the chat
\* queue as it is, whatever the read holds; the number of a queued event is
\* above the number of the welcome line and of every line ignored before it.
C34_NoChatBeforeWelcome ==
    /\ [](~WelcomeTaken =>
            /\ chat_queue = <<>>
            /\ \A i \in 1..Len(irc_log) : irc_log[i].op \notin {"ENQ", "RECV", "PARSE"}
            /\ irc_message_task \in {"none", "await_ok", "returned", "cancelled"})
    /\ [][irc_message_task = "await_ok" => chat_queue' = chat_queue]_vars
    /\ [](\A q \in 1..Len(chat_queue) : \A i \in 1..Len(irc_log) :
            (irc_log[i].op = "HS") => irc_log[i].line < chat_queue[q].line)

\* C34 witness: a PRIVMSG line arrived ahead of the welcome line and was
\* passed over; the login is acknowledged, and the chat queue holds one
\* event, of the read after that.
C34_Witness ==
    /\ Cardinality(IgnoredLines) = 1
    /\ WelcomeTaken
    /\ Len(chat_queue) = 1
    /\ irc_message_task = "steady"

\* ---------------------------------------------------------------- C35
\* The handlers that returned True or False for redemption `rid`
Opinions(rid) ==
    {i \in 1..Len(reward_log) :
        reward_log[i].rid = rid /\ reward_log[i].result \in {"True", "False"}}

\* C35: of the reward handlers of the cogs, at most one returns True or False
\* for a redemption, so that a redemption gets at most one status update;
\* the sounds handler returns None unless the title starts with
\* "Play sound: ", the images handler unless it starts with "Show image",
\* and the tts handler for a title of either kind.
C35_OneOpinionPerRedemption ==
    /\ \A rid \in 1..MaxRedemptions : Cardinality(Opinions(rid)) <= 1
    /\ \A i \in 1..Len(reward_log) :
          LET o == reward_log[i] IN
          /\ (o.handler = "sounds" /\ ~IsPlaySound(o.title)) => o.result = "None"
          /\ (o.handler = "images" /\ ~IsShowImage(o.title)) => o.result = "None"
          /\ (o.handler = "tts" /\ (IsPlaySound(o.title) \/ IsShowImage(o.title)))
                => o.result = "None"

\* ---------------------------------------------------------------- C36
\* The invocations for a user that hold the lock of that user
Holding(user) ==
    {i \in 1..Len(tts_inv) :
        tts_inv[i].user = user /\ tts_inv[i].pc \in {"holding", "playing"}}

\* The invocations for a user whose playback is in progress
Playing(user) ==
    {i \in 1..Len(tts_inv) : tts_inv[i].user = user /\ tts_inv[i].pc = "playing"}

\* The invocations for a user that await the lock of that user
Waiting(user) ==
    {i \in 1..Len(tts_inv) : tts_inv[i].user = user /\ tts_inv[i].pc = "waiting"}

C36_Overlap ==
    \E i, j \in 1..Len(tts_inv) :
        /\ tts_inv[i].user # tts_inv[j].user
        /\ tts_inv[i].pc = "playing"
        /\ tts_inv[j].pc = "playing"

\* ---------------------------------------------------------------- C39
\* The invocation of handle_twitch_tts made for redemption `rid`
InvocationsFor(rid) ==
    {i \in 1..Len(tts_inv) : tts_inv[i].via = "reward" /\ tts_inv[i].rid = rid}

\* C39: the tts reward handler returns True for a redemption only when
\* vlc_player.play() was called for its text; a text that the blacklist, a
\* leading "!" or "http", the word count or the word length rejects gives
\* False.
C39_TrueOnlyWhenPlayed ==
    \A k \in 1..Len(reward_log) :
        LET o == reward_log[k] IN
        (o.handler = "tts" /\ o.result \in {"True", "False"}) =>
            /\ o.result = "True" =>
                  \E i \in InvocationsFor(o.rid) : tts_inv[i].played
            /\ \A i \in InvocationsFor(o.rid) :
                  (TtsFilter(tts_inv[i].user, tts_inv[i].text) # "pass"
                      \/ ~WithinLimits(tts_inv[i].msg)) => o.result = "False"

\* ---------------------------------------------------------------- C37
\* The TTS tasks of the list that have not finished
PendingTts ==
    {i \in 1..Len(TTS_PROCESS_QUEUE) : TTS_PROCESS_QUEUE[i] = "run"}

\* main() starts the shutdown: the dispatch loops are cancelled and
\* cleanup() is called
ShutdownBegins ==
    /\ main_pc \in {"sleep", "backoff", "grace"}
    /\ main_pc' \in {"cleanup", "failed"}

\* C37: a cancellation of main() that finds TTS tasks pending cancels one
\* pending task, the oldest entry of the list, removes it from the list and
\* leaves main() in its loop with both dispatch loops and the connector
\* untouched; the shutdown (dispatch loops cancelled, cleanup() called) begins
\* only with a cancellation that finds the list empty, and cleanup() is
\* called at most once.
C37_OneTtsPerCancellation ==
    /\ [][(cancels' = cancels + 1 /\ PendingTts # {}) =>
            /\ Head(TTS_PROCESS_QUEUE) = "run"
            /\ TTS_PROCESS_QUEUE' = Tail(TTS_PROCESS_QUEUE)
            /\ main_pc' \in {"sleep", "backoff"}
            /\ UNCHANGED <<message_loop_task, points_loop_task, connVars,
                           cleanupVars>>]_vars
    /\ [][ShutdownBegins =>
            /\ cancels' = cancels + 1
            /\ TTS_PROCESS_QUEUE = <<>>
            /\ ~TaskLive(message_loop_task')
            /\ ~TaskLive(points_loop_task')]_vars
    /\ [][(main_pc \in {"cleanup", "done", "failed"}) =>
            (main_pc' \in {"cleanup", "done", "failed"})]_vars

\* ---------------------------------------------------------------- C38
\* main() is at a statement that assigns a new task to message_loop_task
CreatesMessageLoop ==
    \/ main_pc = "started" /\ main_pc' = "sleep"
    \/ main_pc = "backoff" /\ main_pc' = "grace"

\* C38: main() creates a message loop task only when it has none or when the
\* one it has is done, so the task it drops is never a live one and there is
\* one live message loop task at most; while main() sits in the 10 s sleep
\* before a restart the task it is about to replace is done; and a task that
\* is live is replaced by no step.
C38_OneMessageLoop ==
    /\ [][CreatesMessageLoop =>
            /\ ~TaskLive(message_loop_task)
            /\ message_loop_task' = "start"]_vars
    /\ [](main_pc = "backoff" => TaskDone(message_loop_task))
    /\ [][(TaskLive(message_loop_task) /\ message_loop_task' = "start") =>
            message_loop_task = "start"]_vars

\* C38 witness: the message loop task failed on a chat event, main() slept
\* its 10 s and has created the replacement, which is live.
C38_Witness ==
    /\ main_pc = "grace"
    /\ message_loop_task = "start"
    /\ \E i \in 1..Len(chat_got) : chat_got[i].outcome = "raised"

====
